---------------------------- MODULE Spec2Model ----------------------------
(***************************************************************************)
(* J1939-21 controller (j1939.cpp / j1939.h) with the two FreeRTOS tasks   *)
(* of main.cpp that drive it: receiver_task (decode_j1939_message,         *)
(* cleanup_stale_sessions) and sender_task (is_bus_available,              *)
(* send_single_frame_message, send_multi_frame_message).                   *)
(*                                                                         *)
(* Time is esp_log_timestamp() in milliseconds; the clock of the model     *)
(* stays far below 2^32, so uint32_t time arithmetic does not wrap.        *)
(* A can_id is kept as its CAN_EFF_FLAG bit (eff) and its bits under       *)
(* CAN_EFF_MASK (id).  The critical sections                               *)
(* guarded by bus_state_mutex contain no suspension point, so each is one  *)
(* atomic step; SpecMx spells out the takes, the gives and the takes that  *)
(* time out, the other specifications run a handler as one step.           *)
(***************************************************************************)
EXTENDS Integers, Sequences, FiniteSets, TLC

(***************************************************************************)
(* Program constants (j1939.h, can.h)                                      *)
(***************************************************************************)
PGN_TP_CM == 60416          \* 0xEC00
PGN_TP_DT == 60160          \* 0xEB00
PGN_REQUEST == 59904        \* 0xEA00
PGN_EXTRA == 61216          \* 0xEF20
PGN_GROUP_MESSAGE == 61200  \* 0xEF10
PGN_SOFTWARE_ID == 65242    \* 0xFEDA
SESSION_A == 2
SESSION_B == 3
SESSION_C == 6
SESSION_D == 7
SESSION_E == 10
SESSION_F == 11
BUS_BUSY_TIMEOUT_MS == 2000
SESSION_TIMEOUT_MS == 1000
DEFAULT_SOURCE_ADDRESS == 50 \* 0x32
CAN_EFF_MASK == 536870911    \* 0x1FFFFFFF

(***************************************************************************)
(* Bounds of the model                                                     *)
(***************************************************************************)
\* the clock stops advancing at MaxNow milliseconds
MaxNow == 2000
\* one clock step, in milliseconds
TickMs == 500

(***************************************************************************)
(* Fixed-width arithmetic.  A mask with 2^n - 1 is written x % 2^n.        *)
(***************************************************************************)
U8(x) == x % 256
U16(x) == x % 65536

RECURSIVE BitOr(_, _)
BitOr(a, b) ==
    IF a = 0 THEN b
    ELSE IF b = 0 THEN a
    ELSE (IF (a % 2 = 1) \/ (b % 2 = 1) THEN 1 ELSE 0)
         + 2 * BitOr(a \div 2, b \div 2)

RECURSIVE BitAnd(_, _)
BitAnd(a, b) ==
    IF a = 0 \/ b = 0 THEN 0
    ELSE (IF (a % 2 = 1) /\ (b % 2 = 1) THEN 1 ELSE 0)
         + 2 * BitAnd(a \div 2, b \div 2)

Shl(a, n) == a * (2 ^ n)
Shr(a, n) == a \div (2 ^ n)

Min(a, b) == IF a < b THEN a ELSE b

\* printf("%02X") of each byte of a buffer
HexDigits == <<"0", "1", "2", "3", "4", "5", "6", "7",
               "8", "9", "A", "B", "C", "D", "E", "F">>
Hex(bytes) ==
    [i \in 1..(2 * Len(bytes)) |->
        LET b == bytes[(i + 1) \div 2]
        IN  IF i % 2 = 1 THEN HexDigits[(b \div 16) + 1]
                         ELSE HexDigits[(b % 16) + 1]]


(***************************************************************************)
(* CAN frames (struct can_frame): eff, id, can_dlc, data[8].  Byte(f, i)   *)
(* is frame->data[i] with the zero-based index of the source.              *)
(***************************************************************************)
Byte(f, i) == f.data[i + 1]

(***************************************************************************)
(* State                                                                   *)
(***************************************************************************)
VARIABLES
    now,                    \* esp_log_timestamp(), ms
    multi_frame_messages,   \* std::map<uint16_t, MultiFrameMessage>
    active_bam_sessions,    \* keys of std::map<uint16_t, bool>
    bus_busy,               \* volatile bool bus_busy
    bus_busy_timeout,       \* uint32_t bus_busy_timeout (the busy deadline)
    sink                    \* records printed (stdout) by the last step

(***************************************************************************)
(* The controller's own state as one value, threaded through the calls a   *)
(* handler makes; out collects the records the handler prints, log the     *)
(* ESP_LOGW lines it writes.                                               *)
(***************************************************************************)
Ctl == [mfm |-> multi_frame_messages,
        active |-> active_bam_sessions,
        busy |-> bus_busy,
        timeout |-> bus_busy_timeout,
        out |-> <<>>,
        log |-> <<>>]

Logged(c, line) == [c EXCEPT !.log = Append(@, line)]

Erase(m, id) == [k \in (DOMAIN m) \ {id} |-> m[k]]

\* uint16_t session_id = (session_number << 8) | src_addr
SessionId(session_number, src_addr) ==
    U16(BitOr(Shl(session_number, 8), src_addr))

\* the block repeated after every erase: under bus_state_mutex, drop the
\* key from active_bam_sessions and clear bus_busy when the map is empty
ReleaseBus_KeepsBusy(c, session_id) ==
    IF session_id \in c.active
    THEN [c EXCEPT !.active = @ \ {session_id}]
    ELSE c
ReleaseBus_All(c, session_id) ==
    IF session_id \in c.active
    THEN [c EXCEPT !.active = {}, !.busy = FALSE]
    ELSE c
ReleaseBus(c, session_id) ==
    IF session_id \in c.active
    THEN [c EXCEPT !.active = @ \ {session_id},
                   !.busy = IF c.active \ {session_id} = {} THEN FALSE ELSE @]
    ELSE c

is_valid_session_Range(session) == session \in 2..11
is_valid_session(session) ==
    session \in {SESSION_A, SESSION_B, SESSION_C, SESSION_D, SESSION_E, SESSION_F}

\* current_time - last_activity_time > SESSION_TIMEOUT_MS (uint32_t)
TimedOut_Inclusive(t, last) == t - last >= SESSION_TIMEOUT_MS
TimedOut(t, last) == t - last > SESSION_TIMEOUT_MS

\* is_session_valid: [valid, c]; a stale entry for the key is reaped
is_session_valid(c, session_number, src_addr, t) ==
    LET session_id == SessionId(session_number, src_addr)
    IN  IF ~is_valid_session(session_number)
        THEN [valid |-> FALSE, c |-> c]
        ELSE IF session_id \notin DOMAIN c.mfm
        THEN [valid |-> TRUE, c |-> c]
        ELSE IF TimedOut(t, c.mfm[session_id].last_activity_time)
        THEN [valid |-> TRUE,
              c |-> ReleaseBus([c EXCEPT !.mfm = Erase(@, session_id)], session_id)]
        ELSE [valid |-> FALSE, c |-> c]

\* the keys of a set in std::map iteration order
RECURSIVE Ascending(_)
Ascending(S) ==
    IF S = {} THEN <<>>
    ELSE LET m == CHOOSE x \in S : \A y \in S : x <= y
         IN  <<m>> \o Ascending(S \ {m})

RECURSIVE RemoveSessions(_, _)
RemoveSessions(c, ids) ==
    IF ids = <<>> THEN c
    ELSE RemoveSessions(
            ReleaseBus([c EXCEPT !.mfm = Erase(@, Head(ids))], Head(ids)),
            Tail(ids))

StaleIds(c, t) ==
    {id \in DOMAIN c.mfm : TimedOut(t, c.mfm[id].last_activity_time)}

RECURSIVE LogEach(_, _, _)
LogEach(c, ids, line) ==
    IF ids = <<>> THEN c
    ELSE LogEach(Logged(c, <<line, Head(ids)>>), Tail(ids), line)

cleanup_stale_sessions_FirstOnly(c, t) ==
    LET all == Ascending(StaleIds(c, t))
        sessions_to_remove == IF all = <<>> THEN <<>> ELSE <<Head(all)>>
    IN  RemoveSessions(LogEach(c, sessions_to_remove, "removing_stale_session"),
                       sessions_to_remove)
cleanup_stale_sessions(c, t) ==
    LET sessions_to_remove == Ascending(StaleIds(c, t))
    IN  RemoveSessions(LogEach(c, sessions_to_remove, "removing_stale_session"),
                       sessions_to_remove)

\* process_complete_message: one record {pgn, sender, size, data}
process_complete_message_Twice(c, mfm) ==
    LET r == [pgn |-> mfm.pgn, sender |-> mfm.source_addr, sf |-> FALSE,
              size |-> mfm.total_size, data |-> Hex(mfm.data)]
    IN  [c EXCEPT !.out = @ \o <<r, r>>]
process_complete_message(c, mfm) ==
    [c EXCEPT !.out = Append(@, [pgn |-> mfm.pgn,
                                 sender |-> mfm.source_addr,
                                 sf |-> FALSE,
                                 size |-> mfm.total_size,
                                 data |-> Hex(mfm.data)])]

\* a fresh MultiFrameMessage as parse_tp_cm fills it in; announce keeps the
\* control code (0 BAM, 1 RTS) that opened the session
NewSession(message_size, pgn, src_addr, session_number, total_packets, code, t) ==
    [data |-> <<>>,
     total_size |-> message_size,
     pgn |-> pgn,
     source_addr |-> src_addr,
     session_number |-> session_number,
     packets_received |-> 0,
     total_packets |-> total_packets,
     complete |-> FALSE,
     last_activity_time |-> t,
     announce |-> code]

\* bus_busy = true; bus_busy_timeout = now + total_packets * 200 + 500;
\* active_bam_sessions[session_id] = true
AcquireBus(c, session_id, total_packets, t) ==
    [c EXCEPT !.busy = TRUE,
              !.timeout = t + (total_packets * 200) + 500,
              !.active = @ \cup {session_id}]

Put(m, id, v) == [k \in (DOMAIN m) \cup {id} |-> IF k = id THEN v ELSE m[k]]

\* total_packets of an announce: data[3], or (size + 6) / 7 for 0 and 0xFF
AnnouncedPackets(frame) ==
    LET message_size == BitOr(Byte(frame, 1), Shl(Byte(frame, 2), 8))
        calculated_packets == U16((message_size + 6) \div 7)
    IN  IF Byte(frame, 3) = 255 \/ Byte(frame, 3) = 0
        THEN calculated_packets
        ELSE Byte(frame, 3)

\* the RTS branch: the session is written, bus_state_mutex is not touched
OpenRts_Acquires(c, session_id, total_packets, t, mfm) ==
    [AcquireBus(c, session_id, total_packets, t)
        EXCEPT !.mfm = Put(@, session_id, mfm)]
OpenRts(c, session_id, total_packets, t, mfm) ==
    [c EXCEPT !.mfm = Put(@, session_id, mfm)]

parse_tp_cm(c0, frame, src_addr, t) ==
    LET control_byte == Byte(frame, 0)
        session_number == Shr(control_byte, 4) % 16
        session_id == SessionId(session_number, src_addr)
        v == is_session_valid(c0, session_number, src_addr, t)
        c == cleanup_stale_sessions(v.c, t)
        message_size == BitOr(Byte(frame, 1), Shl(Byte(frame, 2), 8))
        calculated_packets == U16((message_size + 6) \div 7)
        total_packets == AnnouncedPackets(frame)
        pgn == BitOr(BitOr(Byte(frame, 5), Shl(Byte(frame, 6), 8)),
                     Shl(Byte(frame, 7), 16))
    IN  IF ~v.valid
        THEN Logged(c0, <<"invalid_or_busy_session", session_id>>)
        ELSE IF control_byte % 16 = 0
        THEN IF message_size = 0 \/ calculated_packets = 0
             THEN Logged(c, <<"invalid_bam_parameters", session_id>>)
             ELSE LET b == AcquireBus(c, session_id, total_packets, t)
                  IN  [b EXCEPT !.mfm = Put(@, session_id,
                           NewSession(message_size, pgn, src_addr,
                                      session_number, total_packets, 0, t))]
        ELSE IF control_byte % 16 = 1
        THEN OpenRts(c, session_id, total_packets, t,
                     NewSession(message_size, pgn, src_addr,
                                session_number, total_packets, 1, t))
        ELSE IF control_byte = 255
        THEN ReleaseBus([c EXCEPT !.mfm = Erase(@, session_id)], session_id)
        ELSE c

\* expected_seq of parse_tp_dt
ExpectedSeq(packets_received) ==
    IF packets_received % 15 = 0 THEN 1 ELSE (packets_received % 15) + 1

\* mfm.data after resize(start_pos + bytes_to_copy) and the memcpy of
\* frame->data + 1
Stored_FromStart(data, frame, start_pos, bytes_to_copy) ==
    LET size == IF Len(data) < start_pos + bytes_to_copy
                THEN start_pos + bytes_to_copy ELSE Len(data)
    IN  [i \in 1..size |->
            IF i <= bytes_to_copy
            THEN Byte(frame, i)
            ELSE IF i <= Len(data) THEN data[i] ELSE 0]
Stored(data, frame, start_pos, bytes_to_copy) ==
    LET size == IF Len(data) < start_pos + bytes_to_copy
                THEN start_pos + bytes_to_copy ELSE Len(data)
    IN  [i \in 1..size |->
            IF i > start_pos /\ i <= start_pos + bytes_to_copy
            THEN Byte(frame, i - start_pos)
            ELSE IF i <= Len(data) THEN data[i] ELSE 0]

\* the out-of-sequence branch: erase the session, release the bus
OutOfSequence_KeepsSession(c, session_id) ==
    Logged(c, <<"out_of_sequence", session_id>>)
OutOfSequence(c, session_id) ==
    ReleaseBus(
        Logged([c EXCEPT !.mfm = Erase(@, session_id)],
               <<"out_of_sequence", session_id>>),
        session_id)

parse_tp_dt(c0, frame, src_addr, t) ==
    LET first_byte == Byte(frame, 0)
        sequence_number == first_byte % 16
        session_number == Shr(first_byte, 4) % 16
        session_id == SessionId(session_number, src_addr)
    IN  IF sequence_number = 0 \/ sequence_number > 15
        THEN Logged(c0, <<"invalid_sequence_number", session_id>>)
        ELSE IF session_id \notin DOMAIN c0.mfm
        THEN Logged(c0, <<"unknown_session", session_id>>)
        ELSE
        LET c == [c0 EXCEPT !.mfm[session_id].last_activity_time = t]
            mfm == c.mfm[session_id]
            start_pos == mfm.packets_received * 7
            bytes_to_copy == IF mfm.total_size - start_pos < 7
                             THEN mfm.total_size - start_pos ELSE 7
            done == [mfm EXCEPT
                        !.data = Stored(@, frame, start_pos, bytes_to_copy),
                        !.packets_received = U16(@ + 1)]
        IN  IF sequence_number # ExpectedSeq(mfm.packets_received)
            THEN OutOfSequence(c, session_id)
            ELSE IF start_pos >= mfm.total_size
            THEN Logged([c EXCEPT !.mfm = Erase(@, session_id)],
                        <<"position_exceeds_size", session_id>>)
            ELSE IF done.packets_received >= done.total_packets
            THEN ReleaseBus(
                    [process_complete_message(c, done)
                        EXCEPT !.mfm = Erase(@, session_id)],
                    session_id)
            ELSE [c EXCEPT !.mfm[session_id] = done]

\* the PGN decode_j1939_message derives from a 29-bit identifier
DecodedPgn_16bit(id) ==
    LET pdu_format == Shr(id, 16) % 256
        pgn == Shr(id, 8) % 65536
        masked == IF pdu_format < 240 THEN BitAnd(pgn, 65280) ELSE pgn
    IN  BitOr(masked, Shl(pdu_format, 8))
DecodedPgn(id) ==
    LET pdu_format == Shr(id, 16) % 256
        pgn == Shr(id, 8) % 262144
        masked == IF pdu_format < 240 THEN BitAnd(pgn, 261888) ELSE pgn
    IN  BitOr(masked, Shl(pdu_format, 8))

\* the record printed for a frame that is no TP.CM, TP.DT or Request:
\* "size":"SF" and the bytes data[0] .. data[can_dlc - 1]
SingleFrameRecord_FullBuffer(pgn, src_addr, frame) ==
    [pgn |-> pgn, sender |-> src_addr, sf |-> TRUE, size |-> 0,
     data |-> Hex(frame.data)]
SingleFrameRecord(pgn, src_addr, frame) ==
    [pgn |-> pgn, sender |-> src_addr, sf |-> TRUE, size |-> 0,
     data |-> Hex(SubSeq(frame.data, 1, frame.can_dlc))]

decode_j1939_message(c, frame, t) ==
    IF ~frame.eff
    THEN c
    ELSE
    LET id == frame.id % (CAN_EFF_MASK + 1)
        src_addr == id % 256
        pgn == DecodedPgn(id)
    IN  IF pgn = PGN_TP_CM THEN parse_tp_cm(c, frame, src_addr, t)
        ELSE IF pgn = PGN_TP_DT THEN parse_tp_dt(c, frame, src_addr, t)
        ELSE IF pgn = PGN_REQUEST THEN c
        ELSE [c EXCEPT !.out = Append(@, SingleFrameRecord(pgn, src_addr, frame))]

\* is_bus_available: [available, c]
is_bus_available_KeepsOwners(c, t) ==
    IF c.busy
    THEN IF t > c.timeout
         THEN [available |-> TRUE,
               c |-> Logged([c EXCEPT !.busy = FALSE], <<"bus_timed_out", 0>>)]
         ELSE [available |-> FALSE, c |-> c]
    ELSE [available |-> TRUE, c |-> c]
is_bus_available_NoWatchdog(c, t) ==
    [available |-> ~c.busy, c |-> c]
is_bus_available(c, t) ==
    IF c.busy
    THEN IF t > c.timeout
         THEN [available |-> TRUE,
               c |-> Logged([c EXCEPT !.busy = FALSE, !.active = {}],
                            <<"bus_timed_out", 0>>)]
         ELSE [available |-> FALSE, c |-> c]
    ELSE [available |-> TRUE, c |-> c]

\* the whole call: taken is the answer of xSemaphoreTake(bus_state_mutex,
\* 100 ms); without the mutex the call reads and writes nothing
is_bus_available_Optimistic(c, t, taken) ==
    IF taken THEN is_bus_available(c, t) ELSE [available |-> TRUE, c |-> c]
is_bus_available_mutex(c, t, taken) ==
    IF taken THEN is_bus_available(c, t) ELSE [available |-> FALSE, c |-> c]

(***************************************************************************)
(* Frames on the wire.  TP.CM goes out on 0x18ECFFss, TP.DT on 0x18EBFFss  *)
(* (identifiers of send_multi_frame_message; remote nodes use the same).   *)
(***************************************************************************)
TpCmId(source_address) == BitOr(BitOr(418119680, Shl(255, 8)), source_address)
TpDtId(source_address) == BitOr(BitOr(418054144, Shl(255, 8)), source_address)

CmFrame(src, session, code, size, npk, pgn) ==
    [eff |-> TRUE, id |-> TpCmId(src),
     can_dlc |-> 8,
     data |-> <<(session * 16) + code, size % 256, (size \div 256) % 256, npk,
                255, pgn % 256, (pgn \div 256) % 256, (pgn \div 65536) % 256>>]

DtFrame(src, session, seq, fill) ==
    [eff |-> TRUE, id |-> TpDtId(src),
     can_dlc |-> 8,
     data |-> <<(session * 16) + seq>> \o [i \in 1..7 |-> fill + (8 * seq) + i]]

\* What remote nodes put on the bus.  Node 0x10 announces with tag 2 every
\* (total size, packet-count byte) of Announces as a BAM: rejected, exact,
\* short count, long count, eight packets, oversize, and the first two as
\* an RTS; node
\* 0x11 announces exact BAMs with tag 3.  Tag 5 is outside the valid set.
Announces == {<<0, 0>>, <<9, 0>>, <<9, 1>>, <<9, 3>>, <<56, 8>>, <<1786, 1>>}
RemoteSeqs == 0..3
Fills == {65}
\* node 0x11 fills its frames with other bytes than node 0x10
OtherFill == 97

CmFrames ==
    {CmFrame(16, 2, 0, a[1], a[2], PGN_EXTRA) : a \in Announces}
    \cup {CmFrame(16, 2, 1, a[1], a[2], PGN_EXTRA) : a \in {<<0, 0>>, <<9, 0>>}}
    \cup {CmFrame(17, 3, 0, 9, 2, PGN_GROUP_MESSAGE),
          CmFrame(16, 5, 0, 9, 2, PGN_EXTRA),
          CmFrame(16, 15, 15, 9, 2, PGN_EXTRA),
          CmFrame(16, 2, 3, 9, 2, PGN_EXTRA),
          CmFrame(16, 2, 1, 9, 2, PGN_EXTRA)}
DtFrames ==
    {DtFrame(16, 2, q, fl) : q \in RemoteSeqs, fl \in Fills}
    \cup {DtFrame(17, 3, q, OtherFill) : q \in {1, 2}}
    \cup {DtFrame(16, 5, 1, 65)}
OtherFrames ==
    {[eff |-> FALSE, id |-> 291, can_dlc |-> 2,
      data |-> <<1, 2, 0, 0, 0, 0, 0, 0>>],
     [eff |-> TRUE, id |-> 418053904, can_dlc |-> 3,
      data |-> <<0, 238, 0, 0, 0, 0, 0, 0>>],
     [eff |-> TRUE, id |-> 418324496, can_dlc |-> 3,
      data |-> <<65, 66, 67, 0, 0, 0, 0, 0>>],
     \* 0x18FEDA10: a PDU2 identifier
     [eff |-> TRUE, id |-> 419355152, can_dlc |-> 2,
      data |-> <<1, 2, 0, 0, 0, 0, 0, 0>>],
     \* 0x19EF2010 and 0x19ECFF10: bit 24 (data page) of the identifier set
     [eff |-> TRUE, id |-> 435101712, can_dlc |-> 3,
      data |-> <<65, 66, 67, 0, 0, 0, 0, 0>>],
     [CmFrame(16, 2, 0, 9, 2, PGN_EXTRA) EXCEPT !.id = 434962192]}
RxFrames == CmFrames \cup DtFrames \cup OtherFrames

(***************************************************************************)
(* The two tasks of main.cpp.  sender_task: the position pc in             *)
(* "is_bus_available(); take spi_mutex; send_*_message(); give spi_mutex", *)
(* with the locals of the running send call.  A vTaskDelay is a point at   *)
(* which the other task and the clock may run.                             *)
(***************************************************************************)
VARIABLES
    spi_mutex,              \* "free", or the task holding it: "rx", "tx"
    pc,                     \* sender_task: "idle", "take", "gate", "delay",
                            \*   "single", "bam", "dt", "ret"
    msg,                    \* arguments of the send call: pgn, data, len
    retries,                \* i of the bus-wait loop
    seq,                    \* seq of the data-frame loop
    retry,                  \* retry of the per-frame loop
    session_index,          \* static int session_index
    this_message_session,   \* the tag picked for the running burst
    wire,                   \* frames the transceiver accepted in this call
    ret,                    \* return value of the last send call
    rx_pos,                 \* loop-back: frames of wire already decoded
    rx_records,             \* loop-back: all records printed while decoding
    rx_fresh,               \* loop-back: the table was empty at the first frame
    message_queue,          \* sender_task: std::vector<message_entry_t>
    it,                     \* sender_task: the entry the scan is at, 0: none
    bus_state_mutex,        \* "free", or the task holding it: "rx", "tx"
    rx_todo,                \* receiver: critical sections its handler has to run
    rx_in,                  \* receiver is inside a bus-state critical section
    tx_in                   \* sender is inside the section of is_bus_available

ctlvars == <<multi_frame_messages, active_bam_sessions, bus_busy,
             bus_busy_timeout>>
txvars == <<spi_mutex, pc, msg, retries, seq, retry, session_index,
            this_message_session, wire, ret>>
rtvars == <<rx_pos, rx_records, rx_fresh>>
qvars == <<message_queue, it>>
mxvars == <<bus_state_mutex, rx_todo, rx_in, tx_in>>
vars == <<now, ctlvars, sink, txvars, rtvars, qvars, mxvars>>

working_sessions_Dense == <<2, 3, 4, 5, 6, 7>>
working_sessions == <<2, 3, 6, 7, 10, 11>>

NoMsg == [pgn |-> 0, data |-> <<>>, len |-> 0]

\* the controller state a call leaves behind
Commit(c) ==
    /\ multi_frame_messages' = c.mfm
    /\ active_bam_sessions' = c.active
    /\ bus_busy' = c.busy
    /\ bus_busy_timeout' = c.timeout
    /\ sink' = c.out

InitController ==
    /\ multi_frame_messages = <<>>
    /\ active_bam_sessions = {}
    /\ bus_busy = FALSE
    /\ bus_busy_timeout = 0
    /\ sink = <<>>

\* the controller is constructed in app_main, one clock step after boot
Init ==
    /\ now = TickMs
    /\ InitController
    /\ spi_mutex = "free"
    /\ pc = "idle"
    /\ msg = NoMsg
    /\ retries = 0
    /\ seq = 0
    /\ retry = 0
    /\ session_index = 0
    /\ this_message_session = 0
    /\ wire = <<>>
    /\ ret = FALSE
    /\ rx_pos = 0
    /\ rx_records = <<>>
    /\ rx_fresh = FALSE
    /\ message_queue = <<>>
    /\ it = 0
    /\ bus_state_mutex = "free"
    /\ rx_todo = <<>>
    /\ rx_in = FALSE
    /\ tx_in = FALSE

Tick ==
    /\ now + TickMs <= MaxNow
    /\ now' = now + TickMs
    /\ sink' = <<>>
    /\ UNCHANGED <<ctlvars, txvars, rtvars, mxvars, qvars>>

(***************************************************************************)
(* The controller's receive-side operations, callable in any order         *)
(***************************************************************************)
Decode(f) ==
    /\ Commit(decode_j1939_message(Ctl, f, now))
    /\ UNCHANGED <<now, txvars, rtvars, mxvars, qvars>>

Cleanup ==
    /\ Commit(cleanup_stale_sessions(Ctl, now))
    /\ UNCHANGED <<now, txvars, rtvars, mxvars, qvars>>

BusQuery ==
    /\ \E taken \in BOOLEAN :
           Commit(is_bus_available_mutex(Ctl, now, taken).c)
    /\ UNCHANGED <<now, txvars, rtvars, mxvars, qvars>>

NextRx ==
    \/ Tick
    \/ \E f \in RxFrames : Decode(f)
    \/ Cleanup
    \/ BusQuery

SpecRx == Init /\ [][NextRx]_vars

(***************************************************************************)
(* Frames built by the send calls                                          *)
(***************************************************************************)
\* send_single_frame_message: the identifier and the len bytes that go out
SingleFrame(pgn, dst, data, len, source_address) ==
    LET pdu_format == Shr(pgn, 8) % 256
        pdu_specific == pgn % 256
    IN  [eff |-> TRUE,
         id |-> BitOr(BitOr(BitOr(402653184, Shl(pdu_format, 16)),
                            Shl(pdu_specific, 8)),
                      source_address),
         can_dlc |-> len,
         data |-> SubSeq(data, 1, len)]

\* uint16_t total_packets = (size + 6) / 7
TotalPackets(size) == U16((size + 6) \div 7)

\* the announce of send_multi_frame_message
BamFrame(pgn, size, session, source_address) ==
    [eff |-> TRUE,
     id |-> TpCmId(source_address),
     can_dlc |-> 8,
     data |-> <<BitOr(32, Shl(session % 16, 4)),
                size % 256,
                Shr(size, 8) % 256,
                IF TotalPackets(size) > 255 THEN 255 ELSE TotalPackets(size) % 256,
                255,
                pgn % 256,
                Shr(pgn, 8) % 256,
                Shr(pgn, 16) % 256>>]

\* seq_to_send of the data-frame loop
SeqToSend_NoWrap(s) == s % 16
SeqToSend(s) ==
    LET seq_to_send == IF s > 15 THEN ((s - 1) % 15) + 1 ELSE s
    IN  IF seq_to_send < 1 \/ seq_to_send > 15 THEN 1 ELSE seq_to_send

\* data frame number s of send_multi_frame_message
DataFrame_ZeroPad(s, data, size, session, source_address) ==
    LET data_offset == U16((s - 1) * 7)
        bytes_to_send == IF data_offset + 7 > size
                         THEN U8(size - data_offset) ELSE 7
    IN  [eff |-> TRUE,
         id |-> TpDtId(source_address),
         can_dlc |-> 8,
         data |-> <<BitOr(SeqToSend(s), Shl(session % 16, 4))>>
                  \o [j \in 1..7 |-> IF j <= bytes_to_send
                                     THEN data[data_offset + j] ELSE 0]]
DataFrame(s, data, size, session, source_address) ==
    LET data_offset == U16((s - 1) * 7)
        bytes_to_send == IF data_offset + 7 > size
                         THEN U8(size - data_offset) ELSE 7
    IN  [eff |-> TRUE,
         id |-> TpDtId(source_address),
         can_dlc |-> 8,
         data |-> <<BitOr(SeqToSend(s), Shl(session % 16, 4))>>
                  \o [j \in 1..7 |-> IF j <= bytes_to_send
                                     THEN data[data_offset + j] ELSE 255]]

\* for (int retry = 0; retry < 3 && !sent; retry++)
SendAttempts_Four == 3 + 1
SendAttempts == 3

\* mcp2515->sendMessage(&frame): ok is the transceiver's answer
SendMessage(frame, ok) ==
    wire' = IF ok THEN Append(wire, frame) ELSE wire

(***************************************************************************)
(* send_single_frame_message / send_multi_frame_message, step by step.     *)
(* The call starts at pc = "gate" with its arguments in msg.               *)
(***************************************************************************)
IsMulti == msg.len > 8
\* retries of the bus-wait loop: 5 (single), 10 (multi)
GateRetries_Short == IF IsMulti THEN 9 ELSE 5
GateRetries_Eleven == IF IsMulti THEN 11 ELSE 5
GateRetries == IF IsMulti THEN 10 ELSE 5

\* leaving the bus-wait loop: a multi-frame call picks its session tag
PassGate ==
    IF IsMulti
    THEN /\ pc' = "bam"
         /\ this_message_session' = working_sessions[session_index + 1]
         /\ session_index' = (session_index + 1) % Len(working_sessions)
    ELSE /\ pc' = "single"
         /\ UNCHANGED <<this_message_session, session_index>>

\* the first is_bus_available() of the call
SendGate ==
    /\ pc = "gate"
    /\ LET r == is_bus_available(Ctl, now)
       IN  /\ Commit(r.c)
           /\ IF r.available
              THEN PassGate
              ELSE /\ pc' = "delay"
                   /\ UNCHANGED <<this_message_session, session_index>>
    /\ retries' = 0
    /\ retry' = 0
    /\ seq' = 1
    /\ UNCHANGED <<now, spi_mutex, msg, wire, ret, rtvars, mxvars, qvars>>

\* after the vTaskDelay of the loop: is_bus_available() again
SendRetry ==
    /\ pc = "delay"
    /\ LET r == is_bus_available(Ctl, now)
       IN  /\ Commit(r.c)
           /\ IF r.available
              THEN PassGate /\ UNCHANGED <<retries, ret>>
              ELSE IF retries = GateRetries - 1
              THEN /\ pc' = "ret"
                   /\ ret' = FALSE
                   /\ UNCHANGED <<retries, this_message_session, session_index>>
              ELSE /\ retries' = retries + 1
                   /\ UNCHANGED <<pc, ret, this_message_session, session_index>>
    /\ UNCHANGED <<now, spi_mutex, msg, seq, retry, wire, rtvars, mxvars, qvars>>

\* send_single_frame_message past the gate: the length check, one sendMessage
SendSingle(ok) ==
    /\ pc = "single"
    /\ IF msg.len > 8
       THEN /\ ret' = FALSE
            /\ UNCHANGED wire
       ELSE /\ SendMessage(SingleFrame(msg.pgn, 255, msg.data, msg.len,
                                       DEFAULT_SOURCE_ADDRESS), ok)
            /\ ret' = ok
    /\ pc' = "ret"
    /\ sink' = <<>>
    /\ UNCHANGED <<now, ctlvars, spi_mutex, msg, retries, seq, retry,
                   session_index, this_message_session, rtvars, mxvars, qvars>>

\* one attempt to send the announce
SendBam(ok) ==
    /\ pc = "bam"
    /\ SendMessage(BamFrame(msg.pgn, msg.len, this_message_session,
                            DEFAULT_SOURCE_ADDRESS), ok)
    /\ IF ok
       THEN /\ retry' = 0
            /\ IF TotalPackets(msg.len) >= 1
               THEN pc' = "dt" /\ UNCHANGED ret
               ELSE pc' = "ret" /\ ret' = TRUE
       ELSE IF retry = SendAttempts - 1
       THEN pc' = "ret" /\ ret' = FALSE /\ UNCHANGED retry
       ELSE retry' = retry + 1 /\ UNCHANGED <<pc, ret>>
    /\ sink' = <<>>
    /\ UNCHANGED <<now, ctlvars, spi_mutex, msg, retries, seq,
                   session_index, this_message_session, rtvars, mxvars, qvars>>

\* one attempt to send data frame seq
SendData(ok) ==
    /\ pc = "dt"
    /\ SendMessage(DataFrame(seq, msg.data, msg.len, this_message_session,
                             DEFAULT_SOURCE_ADDRESS), ok)
    /\ IF ok
       THEN /\ retry' = 0
            /\ IF seq + 1 <= TotalPackets(msg.len)
               THEN seq' = seq + 1 /\ UNCHANGED <<pc, ret>>
               ELSE pc' = "ret" /\ ret' = TRUE /\ UNCHANGED seq
       ELSE IF retry = SendAttempts - 1
       THEN pc' = "ret" /\ ret' = FALSE /\ UNCHANGED <<retry, seq>>
       ELSE retry' = retry + 1 /\ UNCHANGED <<pc, ret, seq>>
    /\ sink' = <<>>
    /\ UNCHANGED <<now, ctlvars, spi_mutex, msg, retries,
                   session_index, this_message_session, rtvars, mxvars, qvars>>

SendStep ==
    \/ SendGate
    \/ SendRetry
    \/ \E ok \in BOOLEAN : SendSingle(ok)
    \/ \E ok \in BOOLEAN : SendBam(ok)
    \/ \E ok \in BOOLEAN : SendData(ok)

(***************************************************************************)
(* sender_task and receiver_task (main.cpp).  A message comes from the     *)
(* UART or from message_queue; either way the task asks                    *)
(* is_bus_available(), takes spi_mutex for at most 100 ms, runs the send   *)
(* call and gives spi_mutex back.  The queue itself is not kept: which     *)
(* message is tried next is a free choice among TxMessages.                *)
(***************************************************************************)
TxMessages ==
    {[pgn |-> PGN_EXTRA, data |-> <<65, 66, 67>>, len |-> 3],
     [pgn |-> PGN_GROUP_MESSAGE,
      data |-> <<72, 101, 108, 108, 111, 44, 32, 74, 49>>, len |-> 9]}

\* if (j1939_controller->is_bus_available())
SenderQuery(m) ==
    /\ pc = "idle"
    /\ LET r == is_bus_available(Ctl, now)
       IN  /\ Commit(r.c)
           /\ IF r.available
              THEN pc' = "take" /\ msg' = m
              ELSE UNCHANGED <<pc, msg>>
    /\ UNCHANGED <<now, spi_mutex, retries, seq, retry, session_index,
                   this_message_session, wire, ret, rtvars, mxvars, qvars>>

\* xSemaphoreTake(spi_mutex, 100 ms) granted: the send call starts
SenderTake ==
    /\ pc = "take"
    /\ spi_mutex = "free"
    /\ spi_mutex' = "tx"
    /\ pc' = "gate"
    /\ sink' = <<>>
    /\ UNCHANGED <<now, ctlvars, msg, retries, seq, retry, session_index,
                   this_message_session, wire, ret, rtvars, mxvars, qvars>>

\* xSemaphoreTake(spi_mutex, 100 ms) ran out while the receiver held it
SenderTakeTimeout ==
    /\ pc = "take"
    /\ spi_mutex = "rx"
    /\ pc' = "idle"
    /\ msg' = NoMsg
    /\ sink' = <<>>
    /\ UNCHANGED <<now, ctlvars, spi_mutex, retries, seq, retry, session_index,
                   this_message_session, wire, ret, rtvars, mxvars, qvars>>

\* the send call has returned: xSemaphoreGive(spi_mutex); its locals are gone
SenderGive ==
    /\ pc = "ret"
    /\ spi_mutex = "tx"
    /\ spi_mutex' = "free"
    /\ pc' = "idle"
    /\ msg' = NoMsg
    /\ retries' = 0
    /\ seq' = 0
    /\ retry' = 0
    /\ this_message_session' = 0
    /\ wire' = <<>>
    /\ ret' = FALSE
    /\ sink' = <<>>
    /\ UNCHANGED <<now, ctlvars, session_index, rtvars, mxvars, qvars>>

\* receiver_task: xSemaphoreTake(spi_mutex, 100 ms) granted
RxTake ==
    /\ spi_mutex = "free"
    /\ spi_mutex' = "rx"
    /\ sink' = <<>>
    /\ UNCHANGED <<now, ctlvars, pc, msg, retries, seq, retry, session_index,
                   this_message_session, wire, ret, rtvars, mxvars, qvars>>

\* readMessage() and decode_j1939_message() under spi_mutex
RxDecode_NoMutex(f) == Decode(f)
RxDecode(f) ==
    /\ spi_mutex = "rx"
    /\ Decode(f)

RxGive ==
    /\ spi_mutex = "rx"
    /\ spi_mutex' = "free"
    /\ sink' = <<>>
    /\ UNCHANGED <<now, ctlvars, pc, msg, retries, seq, retry, session_index,
                   this_message_session, wire, ret, rtvars, mxvars, qvars>>

\* cleanup_stale_sessions() at the end of a receiver_task round
RxCleanup ==
    /\ spi_mutex # "rx"
    /\ Cleanup

\* Remote traffic of the composed system: node 0x10 announces a one-packet
\* BAM with tag 2 (watchdog 700 ms), node 0x11 a three-packet BAM with tag 3
\* (watchdog 1100 ms), and both send their data frames.
SysFrames ==
    {CmFrame(16, 2, 0, 9, 1, PGN_EXTRA),
     CmFrame(17, 3, 0, 21, 3, PGN_GROUP_MESSAGE)}
    \cup {DtFrame(16, 2, 1, 65)}
    \cup {DtFrame(17, 3, q, 65) : q \in {1, 2, 3}}

Next ==
    \/ Tick
    \/ RxTake
    \/ \E f \in SysFrames : RxDecode(f)
    \/ RxGive
    \/ RxCleanup
    \/ \E m \in TxMessages : SenderQuery(m)
    \/ SenderTake
    \/ SenderTakeTimeout
    \/ SendStep
    \/ SenderGive

Spec == Init /\ [][Next]_vars

(***************************************************************************)
(* Loop-back: a send call of one node, then the frames its transceiver     *)
(* accepted decoded in order by a receiving controller.  Both nodes run    *)
(* the same Controller and hear the same remote traffic, so one controller *)
(* state stands for both: the sender only reads it at its bus queries,     *)
(* before any of its own frames exists.  A frame is on the bus, and so at  *)
(* the receiver, before the sender hands over the next one.  Frames of one *)
(* burst are 10-50 ms apart, far below SESSION_TIMEOUT_MS, so no session   *)
(* of the burst can go stale and the clock moves only while the caller     *)
(* sleeps in its bus-wait loop.                                            *)
(***************************************************************************)
RtSizes == {9, 14, 15, 21, 105, 106, 120, 1785}
RtPgns == {PGN_GROUP_MESSAGE, PGN_EXTRA}
Payload(n) == [i \in 1..n |-> (3 * i + n) % 256]
RtMessages ==
    {[pgn |-> PGN_EXTRA, data |-> <<65, 66, 67>>, len |-> 3],
     [pgn |-> PGN_SOFTWARE_ID, data |-> <<1, 2, 3, 4, 5, 6, 7, 255>>, len |-> 8]}
    \cup {[pgn |-> g, data |-> Payload(n), len |-> n] :
              g \in RtPgns, n \in RtSizes}
    \cup {[pgn |-> PGN_EXTRA, data |-> Payload(1786), len |-> 1786]}

OwnKeys(c) ==
    {id \in DOMAIN c.mfm \cup c.active : id % 256 = DEFAULT_SOURCE_ADDRESS}

\* the application calls send_single_frame_message / send_multi_frame_message
RtStart(m) ==
    /\ pc = "idle"
    /\ pc' = "gate"
    /\ msg' = m
    /\ sink' = <<>>
    /\ UNCHANGED <<now, ctlvars, spi_mutex, retries, seq, retry, session_index,
                   this_message_session, wire, ret, rtvars, mxvars, qvars>>

\* a remote node announces a 255-packet BAM before the call: the bus stays
\* busy for longer than any bus-wait loop
RtNoise ==
    /\ pc = "idle"
    /\ DOMAIN multi_frame_messages = {}
    /\ Decode(CmFrame(17, 3, 0, 1785, 255, PGN_GROUP_MESSAGE))

\* vTaskDelay of the bus-wait loop
RtTick ==
    /\ pc = "delay"
    /\ Tick

\* the send call runs on while the receiver has decoded all that was sent
RtSend ==
    /\ rx_pos = Len(wire)
    /\ SendStep

\* the frame just sent reaches decode_j1939_message of the receiver
RtFeed ==
    /\ rx_pos < Len(wire)
    /\ LET c == decode_j1939_message(Ctl, wire[rx_pos + 1], now)
       IN  /\ Commit(c)
           /\ rx_records' = rx_records \o c.out
    /\ rx_pos' = rx_pos + 1
    /\ rx_fresh' = IF rx_pos = 0 THEN DOMAIN multi_frame_messages = {}
                   ELSE rx_fresh
    /\ UNCHANGED <<now, txvars, qvars, mxvars>>

\* the burst is through and nothing of it is pending: the next call may start
RtReset ==
    /\ pc = "ret"
    /\ rx_pos = Len(wire)
    /\ OwnKeys(Ctl) = {}
    /\ pc' = "idle"
    /\ msg' = NoMsg
    /\ retries' = 0
    /\ seq' = 0
    /\ retry' = 0
    /\ this_message_session' = 0
    /\ wire' = <<>>
    /\ ret' = FALSE
    /\ rx_pos' = 0
    /\ rx_records' = <<>>
    /\ rx_fresh' = FALSE
    /\ sink' = <<>>
    /\ UNCHANGED <<now, ctlvars, spi_mutex, session_index, qvars, mxvars>>

NextRT ==
    \/ \E m \in RtMessages : RtStart(m)
    \/ RtNoise
    \/ RtTick
    \/ RtSend
    \/ RtFeed
    \/ RtReset

SpecRT == Init /\ [][NextRT]_vars

(***************************************************************************)
(* sender_task with its message_queue (main.cpp).  Each round of the       *)
(* while (1) loop scans the queue, then reads the UART.  A complete line   *)
(* is tried at once and is pushed to the queue when that attempt did not   *)
(* send it.                                                                *)
(***************************************************************************)
MaxNowQ == 6000
MaxQueue == 1
QueueTimeoutMs == 5000

\* message_entry_t
Entry(m, t) ==
    [pgn |-> m.pgn, data |-> m.data, len |-> m.len,
     is_multi_frame |-> m.len > 8, timestamp |-> t]

\* message_queue.erase(it)
QueueErase(q, i) == SubSeq(q, 1, i - 1) \o SubSeq(q, i + 1, Len(q))

\* if (current_time - it->timestamp > 5000)
EntryTimedOut(e, t) == t - e.timestamp > QueueTimeoutMs

QTick ==
    /\ now + TickMs <= MaxNowQ
    /\ now' = now + TickMs
    /\ sink' = <<>>
    /\ UNCHANGED <<ctlvars, txvars, rtvars, mxvars, qvars>>

\* a complete line has come from the UART: the immediate attempt; with the
\* bus busy the message goes to the queue
UartLine(m) ==
    /\ pc = "idle"
    /\ Len(message_queue) < MaxQueue
    /\ LET r == is_bus_available(Ctl, now)
       IN  /\ Commit(r.c)
           /\ IF r.available
              THEN /\ pc' = "take"
                   /\ msg' = m
                   /\ UNCHANGED message_queue
              ELSE /\ message_queue' = Append(message_queue, Entry(m, now))
                   /\ UNCHANGED <<pc, msg>>
    /\ it' = 0
    /\ UNCHANGED <<now, spi_mutex, retries, seq, retry, session_index,
                   this_message_session, wire, ret, rtvars, mxvars>>

\* the next round of while (1): the scan starts at message_queue.begin()
QueueScan ==
    /\ pc = "idle"
    /\ message_queue # <<>>
    /\ pc' = "scan"
    /\ it' = 1
    /\ sink' = <<>>
    /\ UNCHANGED <<now, ctlvars, spi_mutex, msg, retries, seq, retry,
                   session_index, this_message_session, wire, ret, rtvars, mxvars,
                   message_queue>>

\* it == message_queue.end(): on to uart_read_bytes
QueueScanEnd ==
    /\ pc = "scan"
    /\ it > Len(message_queue)
    /\ pc' = "idle"
    /\ it' = 0
    /\ sink' = <<>>
    /\ UNCHANGED <<now, ctlvars, spi_mutex, msg, retries, seq, retry,
                   session_index, this_message_session, wire, ret, rtvars, mxvars,
                   message_queue>>

\* if (j1939_controller->is_bus_available()) ... else break
QueueQuery ==
    /\ pc = "scan"
    /\ it <= Len(message_queue)
    /\ LET r == is_bus_available(Ctl, now)
           e == message_queue[it]
       IN  /\ Commit(r.c)
           /\ IF r.available
              THEN /\ pc' = "take"
                   /\ msg' = [pgn |-> e.pgn, data |-> e.data, len |-> e.len]
                   /\ UNCHANGED it
              ELSE /\ pc' = "idle"
                   /\ it' = 0
                   /\ UNCHANGED msg
    /\ UNCHANGED <<now, spi_mutex, retries, seq, retry, session_index,
                   this_message_session, wire, ret, rtvars, mxvars, message_queue>>

\* xSemaphoreTake(spi_mutex, 100 ms) ran out: ++it for a queued entry, the
\* queue for a line of the UART
QueueTakeTimeout ==
    /\ pc = "take"
    /\ spi_mutex = "rx"
    /\ IF it > 0
       THEN /\ pc' = "scan"
            /\ it' = it + 1
            /\ UNCHANGED message_queue
       ELSE /\ pc' = "idle"
            /\ message_queue' = Append(message_queue, Entry(msg, now))
            /\ UNCHANGED it
    /\ msg' = NoMsg
    /\ sink' = <<>>
    /\ UNCHANGED <<now, ctlvars, spi_mutex, retries, seq, retry, session_index,
                   this_message_session, wire, ret, rtvars, mxvars>>

\* the send call has returned, xSemaphoreGive(spi_mutex): a queued entry is
\* erased when it was sent or when it is older than 5000 ms, a line of the
\* UART that was not sent is pushed to the queue
QueueGive ==
    /\ pc = "ret"
    /\ spi_mutex = "tx"
    /\ spi_mutex' = "free"
    /\ IF it > 0
       THEN IF ret
            THEN /\ message_queue' = QueueErase(message_queue, it)
                 /\ pc' = "idle"
                 /\ it' = 0
            ELSE IF EntryTimedOut(message_queue[it], now)
            THEN /\ message_queue' = QueueErase(message_queue, it)
                 /\ pc' = "scan"
                 /\ UNCHANGED it
            ELSE /\ pc' = "scan"
                 /\ it' = it + 1
                 /\ UNCHANGED message_queue
       ELSE /\ pc' = "idle"
            /\ message_queue' = IF ret THEN message_queue
                                ELSE Append(message_queue, Entry(msg, now))
            /\ UNCHANGED it
    /\ msg' = NoMsg
    /\ retries' = 0
    /\ seq' = 0
    /\ retry' = 0
    /\ this_message_session' = 0
    /\ wire' = <<>>
    /\ ret' = FALSE
    /\ sink' = <<>>
    /\ UNCHANGED <<now, ctlvars, session_index, rtvars, mxvars>>

\* remote traffic while the queue is served: node 0x11 announces a
\* 255-packet BAM (watchdog 51500 ms)
QueueFrames ==
    {CmFrame(17, 3, 0, 1785, 255, PGN_GROUP_MESSAGE)}

QueueMessages == TxMessages

NextQ ==
    \/ QTick
    \/ RxTake
    \/ \E f \in QueueFrames : RxDecode(f)
    \/ RxGive
    \/ RxCleanup
    \/ \E m \in QueueMessages : UartLine(m)
    \/ QueueScan
    \/ QueueScanEnd
    \/ QueueQuery
    \/ SenderTake
    \/ QueueTakeTimeout
    \/ SendStep
    \/ QueueGive

SpecQ == Init /\ [][NextQ]_vars

(***************************************************************************)
(* Properties                                                              *)
(***************************************************************************)
\* the session key (session tag, source) a TP.CM / TP.DT frame addresses
FrameKey(f) == SessionId(Byte(f, 0) \div 16, f.id % 256)
FrameSeq(f) == Byte(f, 0) % 16
FrameCode(f) == Byte(f, 0) % 16
FrameSize(f) == Byte(f, 1) + (256 * Byte(f, 2))
Live(id) ==
    /\ id \in DOMAIN multi_frame_messages
    /\ now - multi_frame_messages[id].last_activity_time <= SESSION_TIMEOUT_MS
SameBus(c) ==
    /\ c.active = active_bam_sessions
    /\ c.busy = bus_busy
    /\ c.timeout = bus_busy_timeout

\* C1: when a successful send_multi_frame_message(g, P, |P|) has had all its
\* frames decoded, in order, by a controller whose session table was empty,
\* exactly one record was printed, a reassembled one with pgn g, the
\* transmitter's source address, size |P| and data P, and the session table
\* and the bus owners are empty again.
C1_RoundTrip ==
    (/\ pc = "ret"
     /\ ret
     /\ IsMulti
     /\ rx_pos = Len(wire)
     /\ rx_fresh)
        => /\ rx_records = <<[pgn |-> msg.pgn,
                              sender |-> DEFAULT_SOURCE_ADDRESS,
                              sf |-> FALSE,
                              size |-> msg.len,
                              data |-> Hex(msg.data)]>>
           /\ DOMAIN multi_frame_messages = {}
           /\ active_bam_sessions = {}

\* 1785 bytes went out as 1 + 255 frames under a rotated tag and came back
C1_Witness ==
    /\ pc = "ret"
    /\ ret
    /\ msg.len = 1785
    /\ this_message_session = 7
    /\ Len(wire) = 256
    /\ rx_pos = 256
    /\ rx_fresh
    /\ Len(rx_records) = 1

\* C2 (as stated): every TP.DT for a session's key whose sequence nibble
\* differs from (packets_received mod 15) + 1 removes the session, prints no
\* record and releases the key's bus ownership.
C2_Original ==
    \A f \in DtFrames :
        LET id == FrameKey(f)
            c == decode_j1939_message(Ctl, f, now)
        IN  (/\ id \in DOMAIN multi_frame_messages
             /\ FrameSeq(f) #
                    (multi_frame_messages[id].packets_received % 15) + 1)
            => (/\ id \notin DOMAIN c.mfm
                /\ c.out = <<>>
                /\ id \notin c.active
                /\ (c.active = {} => ~c.busy))

\* C2 (amended): a TP.DT for a session's key whose sequence nibble is in
\* 1..15 and differs from (packets_received mod 15) + 1 removes the session,
\* prints no record, removes the key from the owners and leaves busy false
\* when no owner remains; a TP.DT for a key without a session (the rest of
\* that burst) prints nothing and opens nothing; a TP.DT with sequence
\* nibble 0 is dropped and the session stays.
C2_SequenceDiscipline ==
    \A f \in DtFrames :
        LET id == FrameKey(f)
            c == decode_j1939_message(Ctl, f, now)
        IN  /\ (/\ id \in DOMAIN multi_frame_messages
                /\ FrameSeq(f) \in 1..15
                /\ FrameSeq(f) #
                       (multi_frame_messages[id].packets_received % 15) + 1)
               => (/\ id \notin DOMAIN c.mfm
                   /\ c.out = <<>>
                   /\ id \notin c.active
                   /\ (c.active = {} => ~c.busy))
            /\ id \notin DOMAIN multi_frame_messages
               => (c.out = <<>> /\ c.mfm = multi_frame_messages /\ SameBus(c))
            /\ (id \in DOMAIN multi_frame_messages /\ FrameSeq(f) = 0)
               => (c.out = <<>> /\ c.mfm = multi_frame_messages /\ SameBus(c))

\* a session that owns the bus alone has taken one packet, and a TP.DT
\* with a later sequence number makes decode drop it and clear busy
C2_Witness ==
    \E f \in DtFrames :
        LET id == FrameKey(f)
            c == decode_j1939_message(Ctl, f, now)
        IN  /\ Live(id)
            /\ multi_frame_messages[id].packets_received = 1
            /\ FrameSeq(f) = 3
            /\ active_bam_sessions = {id}
            /\ bus_busy
            /\ id \notin DOMAIN c.mfm
            /\ ~c.busy

\* C4: whenever no key owns the bus, busy is false and is_bus_available()
\* returns true; and once the clock is past bus_busy_timeout,
\* is_bus_available() returns true and leaves busy false and the owners
\* empty, also when a key whose session is gone still owns the bus.
C4_BusInvariant ==
    LET r == is_bus_available(Ctl, now)
    IN  /\ active_bam_sessions = {} => (~bus_busy /\ r.available)
        /\ now > bus_busy_timeout
           => (r.available /\ ~r.c.busy /\ r.c.active = {})

\* a key whose session was discarded without a release still owns the bus,
\* the deadline is over and the query frees the bus
C4_Witness ==
    /\ \E id \in active_bam_sessions : id \notin DOMAIN multi_frame_messages
    /\ bus_busy
    /\ now > bus_busy_timeout
    /\ is_bus_available(Ctl, now).available
    /\ is_bus_available(Ctl, now).c.active = {}

\* C5 (as stated): busy is true exactly when a key owns the bus or the clock
\* is not past bus_busy_timeout.
C5_Original ==
    bus_busy <=> (active_bam_sessions # {} \/ now <= bus_busy_timeout)

\* C5 (amended): busy is true exactly when some key owns the bus.
C5_BusyIffOwned ==
    bus_busy <=> active_bam_sessions # {}

\* the last owner has completed before the deadline: busy is false although
\* the clock is not past bus_busy_timeout
C5_Witness ==
    /\ ~bus_busy
    /\ active_bam_sessions = {}
    /\ now <= bus_busy_timeout
    /\ Len(sink) = 1

\* C6: an announce (control code 0 or 1) for a key that has a session whose
\* last activity is at most 1000 ms old, or with a session tag outside
\* {2,3,6,7,10,11}, changes neither the session table nor the bus state and
\* prints nothing.
C6_RejectWhileLive ==
    \A f \in CmFrames :
        LET id == FrameKey(f)
            c == decode_j1939_message(Ctl, f, now)
        IN  (/\ FrameCode(f) \in {0, 1}
             /\ \/ Live(id)
                \/ Byte(f, 0) \div 16 \notin {2, 3, 6, 7, 10, 11})
            => (/\ c.mfm = multi_frame_messages
                /\ SameBus(c)
                /\ c.out = <<>>)

\* a session that has taken a packet exactly 1000 ms ago is announced again
\* with another size, and the announce leaves it as it is
C6_Witness ==
    \E f \in CmFrames :
        LET id == FrameKey(f)
        IN  /\ FrameCode(f) = 0
            /\ id \in DOMAIN multi_frame_messages
            /\ now - multi_frame_messages[id].last_activity_time = 1000
            /\ multi_frame_messages[id].packets_received = 1
            /\ FrameSize(f) # multi_frame_messages[id].total_size
            /\ FrameSize(f) # 0
            /\ decode_j1939_message(Ctl, f, now).mfm = multi_frame_messages

\* C7: every session holds at most total_size bytes and total_size is at
\* most 1785.
C7_BoundedMemory ==
    \A id \in DOMAIN multi_frame_messages :
        /\ Len(multi_frame_messages[id].data) <= multi_frame_messages[id].total_size
        /\ multi_frame_messages[id].total_size <= 1785

\* C8: cleanup_stale_sessions removes exactly the sessions whose last
\* activity is more than 1000 ms old, with their bus ownership (busy false
\* when no owner remains), and leaves the others and the deadline alone;
\* after it, an announce for a removed key opens a fresh session (a BAM
\* announcing 0 bytes is malformed and opens nothing in any state).
C8_StaleEviction ==
    LET stale == {id \in DOMAIN multi_frame_messages :
                    now - multi_frame_messages[id].last_activity_time > 1000}
        c == cleanup_stale_sessions(Ctl, now)
    IN  /\ DOMAIN c.mfm = (DOMAIN multi_frame_messages) \ stale
        /\ \A id \in DOMAIN c.mfm : c.mfm[id] = multi_frame_messages[id]
        /\ c.active = active_bam_sessions \ stale
        /\ c.busy = IF active_bam_sessions \cap stale # {} /\ c.active = {}
                    THEN FALSE ELSE bus_busy
        /\ c.timeout = bus_busy_timeout
        /\ \A f \in CmFrames :
              (/\ FrameKey(f) \in stale
               /\ FrameCode(f) \in {0, 1}
               /\ ~(FrameCode(f) = 0 /\ FrameSize(f) = 0))
              => LET c2 == decode_j1939_message(c, f, now)
                 IN  /\ FrameKey(f) \in DOMAIN c2.mfm
                     /\ c2.mfm[FrameKey(f)].packets_received = 0
                     /\ c2.mfm[FrameKey(f)].data = <<>>
                     /\ c2.mfm[FrameKey(f)].total_size = FrameSize(f)
                     /\ c2.mfm[FrameKey(f)].last_activity_time = now

\* a stale session that owns the bus alone, next to a session that is
\* exactly 1000 ms old: the sweep removes the first only and clears busy
C8_Witness ==
    LET c == cleanup_stale_sessions(Ctl, now)
    IN  /\ \E id \in DOMAIN multi_frame_messages :
              /\ now - multi_frame_messages[id].last_activity_time > 1000
              /\ multi_frame_messages[id].packets_received = 1
              /\ active_bam_sessions = {id}
        /\ \E id \in DOMAIN multi_frame_messages :
              now - multi_frame_messages[id].last_activity_time = 1000
        /\ bus_busy
        /\ ~c.busy
        /\ Cardinality(DOMAIN c.mfm) = 1

\* C9: a second cleanup_stale_sessions at the same time changes nothing the
\* first one left: the same session table and the same bus state.
C9_IdempotentSweep ==
    LET c1 == cleanup_stale_sessions(Ctl, now)
        c2 == cleanup_stale_sessions(c1, now)
    IN  /\ c2.mfm = c1.mfm
        /\ c2.active = c1.active
        /\ c2.busy = c1.busy
        /\ c2.timeout = c1.timeout

\* two stale sessions, both owning the bus: the first sweep removes both
C9_Witness ==
    /\ Cardinality({id \in DOMAIN multi_frame_messages :
            now - multi_frame_messages[id].last_activity_time > 1000}) = 2
    /\ Cardinality(active_bam_sessions) = 2
    /\ cleanup_stale_sessions(Ctl, now).mfm = <<>>
    /\ ~cleanup_stale_sessions(Ctl, now).busy

SendingNow ==
    \/ pc \in {"bam", "dt"}
    \/ pc = "single" /\ msg.len <= 8

\* C3: whenever send_single_frame_message or send_multi_frame_message is
\* about to hand a frame to the transceiver, no session opened by a BAM
\* announce is live (present and not timed out) in the session table.
C3_NoInterleaving ==
    SendingNow =>
        \A id \in DOMAIN multi_frame_messages :
            ~(multi_frame_messages[id].announce = 0 /\ Live(id))

\* a remote BAM owns the bus: announced, data frames pending, deadline ahead
BamOwns ==
    /\ now <= bus_busy_timeout
    /\ \E id \in active_bam_sessions :
          /\ id \in DOMAIN multi_frame_messages
          /\ multi_frame_messages[id].announce = 0
          /\ multi_frame_messages[id].packets_received
                 < multi_frame_messages[id].total_packets

C10_Step ==
    /\ (pc = "gate" /\ ~IsMulti /\ BamOwns /\ pc' # pc)
           => (pc' = "delay" /\ wire' = <<>> /\ wire = <<>>)
    /\ (/\ pc = "delay"
        /\ ~IsMulti
        /\ ~bus_busy \/ now > bus_busy_timeout
        /\ pc' # pc \/ retries' # retries)
           => (pc' = "single" /\ wire' = <<>>)
    /\ (pc = "single" /\ msg.len <= 8 /\ pc' # pc)
           => /\ pc' = "ret"
              /\ wire' \in {<<>>, <<SingleFrame(msg.pgn, 255, msg.data, msg.len,
                                                DEFAULT_SOURCE_ADDRESS)>>}
              /\ ret' <=> wire' # <<>>

\* C10: a send_single_frame_message call that finds a remote BAM owning the
\* bus gets false from its first is_bus_available query and sends nothing
\* yet; a retry made once the bus is free or the deadline has passed gets
\* true, and the call then hands its one frame to the transceiver and returns
\* what the transceiver answered.
C10_BusContention == [][C10_Step]_vars

\* the call waited through at least one failed retry, then the watchdog let it
\* through while the remote session was still in the table, and the frame went
\* out
C10_Witness ==
    /\ pc = "ret"
    /\ msg.len = 3
    /\ retries >= 1
    /\ ret
    /\ Len(wire) = 1
    /\ DOMAIN multi_frame_messages # {}

\* C11: when send_single_frame_message(pgn, 0xFF, data, len) with len <= 8
\* has returned true and its frame is decoded, the frame carries the
\* identifier 0x18000000 | pgn << 8 | 0x32 (0x18EF2032 for pgn 0xEF20) and
\* dlc len, and exactly one single-frame record was printed, with the pgn
\* that was sent, sender 0x32 and the hex of the data.
C11_SingleEcho ==
    (/\ pc = "ret"
     /\ ret
     /\ msg.len \in 1..8
     /\ rx_pos = Len(wire))
        => /\ Len(wire) = 1
           /\ wire[1].eff
           /\ wire[1].id = 402653184 + (256 * msg.pgn) + DEFAULT_SOURCE_ADDRESS
           /\ wire[1].can_dlc = msg.len
           /\ rx_records = <<[pgn |-> msg.pgn,
                              sender |-> DEFAULT_SOURCE_ADDRESS,
                              sf |-> TRUE,
                              size |-> 0,
                              data |-> Hex(msg.data)]>>

\* C12: after decode_j1939_message has processed a TP.CM with control byte
\* 0xFF, no session of the frame's source is in the session table, none of
\* their keys owns the bus (busy false when no owner remains), and nothing
\* was printed.
C12_Abort ==
    \A f \in CmFrames :
        Byte(f, 0) = 255 =>
            LET c == decode_j1939_message(Ctl, f, now)
            IN  /\ \A id \in DOMAIN multi_frame_messages :
                      id % 256 = f.id % 256
                          => (id \notin DOMAIN c.mfm /\ id \notin c.active)
                /\ c.active = {} => ~c.busy
                /\ c.out = <<>>

\* C13: a query issued more than BUS_BUSY_TIMEOUT_MS after a BAM announce
\* acquired the bus, whatever packet count it announced, answers true and
\* leaves busy false and the owners empty.
C13_WatchdogBound ==
    \A f \in CmFrames :
        LET id == FrameKey(f)
            c == decode_j1939_message(Ctl, f, now)
            r == is_bus_available(c, now + BUS_BUSY_TIMEOUT_MS + 1)
        IN  (/\ FrameCode(f) = 0
             /\ id \in c.active
             /\ id \in DOMAIN c.mfm
             /\ c.mfm[id].last_activity_time = now
             /\ c.mfm[id].packets_received = 0)
            => (r.available /\ ~r.c.busy /\ r.c.active = {})

C14_Step ==
    \* a call reaches a sendMessage only from its gate, on a true answer
    /\ (pc' \in {"single", "bam"} /\ pc' # pc)
           => (/\ pc \in {"gate", "delay"}
               /\ is_bus_available(Ctl, now).available
               /\ wire = <<>>
               /\ wire' = <<>>)
    /\ (pc' = "dt" /\ pc' # pc) => pc = "bam"
    /\ wire' # wire
           => \/ pc \in {"single", "bam", "dt"}
              \/ pc = "ret" /\ wire' = <<>>
    \* a false answer changes nothing and sends nothing
    /\ (/\ pc \in {"gate", "delay"}
        /\ pc' # pc \/ retries' # retries
        /\ pc' \notin {"single", "bam"})
           => /\ ~is_bus_available(Ctl, now).available
              /\ UNCHANGED <<multi_frame_messages, active_bam_sessions,
                             bus_busy, bus_busy_timeout, session_index, wire>>
              /\ wire = <<>>
    \* the call gives up exactly after 5 (single) or 10 (multi) false retries
    /\ (pc = "delay" /\ pc' = "ret")
           => (~ret' /\ retries = IF msg.len > 8 THEN 9 ELSE 4)
    /\ (pc = "delay" /\ retries' # retries /\ pc' = pc)
           => (retries' = retries + 1
               /\ retries' <= IF msg.len > 8 THEN 9 ELSE 4)
    /\ (pc = "gate" /\ pc' # pc) => pc' \in {"single", "bam", "delay"}

\* C14: a send call hands a frame to the transceiver only after one of its
\* own is_bus_available queries answered true; a query that answers false
\* changes neither the session table, the bus state nor the tag rotation
\* index; and after the first query and 5 (single) or 10 (multi) retries have
\* all answered false the call returns false with nothing handed over.
C14_TransmitGating == [][C14_Step]_vars

\* a multi-frame call that gave up after its tenth retry while the bus was
\* still busy
C14_Witness ==
    /\ pc = "ret"
    /\ msg.len = 9
    /\ retries = 9
    /\ ~ret
    /\ wire = <<>>
    /\ bus_busy
    /\ session_index = 1

C15_Step ==
    \* an attempt the transceiver refused: the same frame again, or give up
    \* at the third refusal
    /\ (/\ pc \in {"bam", "dt"}
        /\ wire' = wire
        /\ retry' # retry \/ pc' # pc)
           => \/ retry < 2 /\ retry' = retry + 1 /\ pc' = pc /\ seq' = seq
              \/ retry = 2 /\ pc' = "ret" /\ ~ret'
    \* an accepted frame: the next frame starts with a fresh count
    /\ (pc \in {"bam", "dt"} /\ wire' # wire)
           => (Len(wire') = Len(wire) + 1 /\ retry' = 0)
    \* once the call has returned, nothing of the burst is sent any more
    /\ pc = "ret" => (wire' = wire \/ (wire' = <<>> /\ pc' = "idle"))
    /\ (pc = "bam" /\ pc' = "ret") => (wire' = <<>> /\ ~ret')

\* C15: in send_multi_frame_message a frame is attempted at most 3 times; at
\* the third refusal the call returns false and hands over no further frame;
\* three refusals of the announce leave nothing sent; and the call returns
\* true exactly when the announce and all ceil(size/7) data frames were
\* accepted.
C15_TransmitFailure ==
    /\ [][C15_Step]_vars
    /\ [](pc \in {"bam", "dt"} => retry \in 0..2)
    /\ []((pc = "ret" /\ IsMulti /\ ret)
              => Len(wire) = 1 + ((msg.len + 6) \div 7))
    /\ []((pc = "ret" /\ IsMulti /\ ~ret)
              => Len(wire) < 1 + ((msg.len + 6) \div 7))

\* a 120-byte burst whose 16th data frame was refused three times: the
\* announce and 15 data frames are out, the call returned false
C15_Witness ==
    /\ pc = "ret"
    /\ msg.len = 120
    /\ ~ret
    /\ retry = 2
    /\ seq = 16
    /\ Len(wire) = 16

\* C16: between two frames of a burst of sender_task (the announce or a data
\* frame is out, a data frame is still to come) spi_mutex is not held by the
\* sender, so that receiver_task can take it.
C16_PerFrameLocking ==
    (pc = "dt" /\ wire # <<>>) => spi_mutex # "tx"


(***************************************************************************)
(* C17: outbound-queue timeout.  No message stays in message_queue         *)
(* indefinitely: whenever sender_task is done with a queued entry that has *)
(* been queued for more than 5000 ms, be it after a send call, after       *)
(* spi_mutex was not granted or with the bus busy, the entry is out of the *)
(* queue; and an entry leaves the queue only when it was sent or is older  *)
(* than 5000 ms.                                                           *)
(***************************************************************************)
\* sender_task leaves the entry at it: the send call returned, spi_mutex
\* was not granted, or is_bus_available() answered false
C17_Leaves ==
    /\ it \in 1..Len(message_queue)
    /\ pc \in {"scan", "take", "ret"}
    /\ pc' \in {"scan", "idle"}

C17_Removed ==
    (C17_Leaves /\ EntryTimedOut(message_queue[it], now))
        => message_queue' = QueueErase(message_queue, it)

C17_NotEarly ==
    Len(message_queue') < Len(message_queue)
        => /\ pc = "ret"
           /\ it \in 1..Len(message_queue)
           /\ ret \/ EntryTimedOut(message_queue[it], now)
           /\ message_queue' = QueueErase(message_queue, it)

C17_NeverEarly == [][C17_NotEarly]_vars

C17_QueueTimeout == [][C17_Removed /\ C17_NotEarly]_vars

(***************************************************************************)
(* C18: is_bus_available.  With bus_state_mutex taken: busy and past the   *)
(* deadline, the call clears bus_busy, empties active_bam_sessions and     *)
(* returns true; busy and not past the deadline, it returns false and      *)
(* changes nothing; not busy, it returns true and changes nothing.         *)
(* Without the mutex it returns false and changes nothing.  The session    *)
(* table is never changed.                                                 *)
(***************************************************************************)
C18_Same(c) ==
    /\ c.mfm = multi_frame_messages
    /\ c.active = active_bam_sessions
    /\ c.busy = bus_busy
    /\ c.timeout = bus_busy_timeout

C18_BusAvailable ==
    \A taken \in BOOLEAN :
        LET r == is_bus_available_mutex(Ctl, now, taken)
        IN  /\ r.c.mfm = multi_frame_messages
            /\ (taken /\ bus_busy /\ now > bus_busy_timeout)
                   => /\ r.available
                      /\ ~r.c.busy
                      /\ r.c.active = {}
            /\ (taken /\ bus_busy /\ now <= bus_busy_timeout)
                   => ~r.available /\ C18_Same(r.c)
            /\ (taken /\ ~bus_busy)
                   => r.available /\ C18_Same(r.c)
            /\ ~taken
                   => ~r.available /\ C18_Same(r.c)

\* the bus is busy past its deadline, with owners and sessions in the table
C18_Witness ==
    /\ bus_busy
    /\ now > bus_busy_timeout
    /\ active_bam_sessions # {}
    /\ DOMAIN multi_frame_messages # {}

(***************************************************************************)
(* C19: identifier decoding.  For every extended frame                     *)
(* decode_j1939_message takes source = id & 0xFF and, for dispatch and for *)
(* the pgn field of the single-frame record alike, the PGN made of         *)
(* pdu_format << 8, of pdu_specific when pdu_format >= 240, and of bits    *)
(* 24-25 of the identifier as its bits 16-17.  As claimed, the PGN has no  *)
(* bits 16-17: that holds only for identifiers with bits 24-25 clear.      *)
(***************************************************************************)
C19_Format(id) == (id \div 65536) % 256
C19_Specific(id) == (id \div 256) % 256
C19_Page(id) == (id \div 16777216) % 4

\* the PGN of the claim
C19_Pgn16(id) ==
    IF C19_Format(id) < 240
    THEN C19_Format(id) * 256
    ELSE (C19_Format(id) * 256) + C19_Specific(id)

\* the PGN with the data-page bits
C19_Pgn18(id) == (C19_Page(id) * 65536) + C19_Pgn16(id)

\* identifiers of priority 6 over all page bits, PDU1 and PDU2 formats
C19_Ids ==
    {402653184 + (pg * 16777216) + (pf * 65536) + (ps * 256) + 16 :
        pg \in 0..3, pf \in {234, 235, 236, 239, 240, 254}, ps \in {0, 255}}

\* what decode_j1939_message does with frame f when its PGN is pgn
C19_Decoded(f, pgn) ==
    LET src == f.id % 256
    IN  IF pgn = PGN_TP_CM THEN parse_tp_cm(Ctl, f, src, now)
        ELSE IF pgn = PGN_TP_DT THEN parse_tp_dt(Ctl, f, src, now)
        ELSE IF pgn = PGN_REQUEST THEN Ctl
        ELSE [Ctl EXCEPT !.out =
                <<[pgn |-> pgn, sender |-> src, sf |-> TRUE, size |-> 0,
                   data |-> Hex(SubSeq(f.data, 1, f.can_dlc))]>>]

C19_IdDecoding ==
    /\ \A id \in C19_Ids : DecodedPgn(id) = C19_Pgn18(id)
    /\ \A f \in RxFrames :
           f.eff => decode_j1939_message(Ctl, f, now)
                        = C19_Decoded(f, C19_Pgn18(f.id))

C19_IdDecoding_Original ==
    /\ \A id \in C19_Ids : DecodedPgn(id) = C19_Pgn16(id)
    /\ \A f \in RxFrames :
           f.eff => decode_j1939_message(Ctl, f, now)
                        = C19_Decoded(f, C19_Pgn16(f.id))

\* the announce sent on 0x19ECFF10 was printed as a single frame of PGN
\* 0x1EC00 while the bus stayed free
C19_Witness ==
    /\ Len(sink) = 1
    /\ sink[1].sf
    /\ sink[1].pgn = 125952
    /\ sink[1].sender = 16
    /\ ~bus_busy

(***************************************************************************)
(* C20: identifier encoding.  The frame emitted by                         *)
(* send_single_frame_message(pgn, dst, data, len) is extended, has         *)
(* priority 6, the controller's source address, pdu_format = (pgn >> 8) &  *)
(* 0xFF, and pdu_specific = pgn & 0xFF for pdu_format >= 240, = dst below. *)
(***************************************************************************)
C20_Encoded(f, pgn, dst) ==
    LET pdu_format == (pgn \div 256) % 256
    IN  /\ f.eff
        /\ (f.id \div 67108864) % 8 = 6
        /\ f.id % 256 = DEFAULT_SOURCE_ADDRESS
        /\ (f.id \div 65536) % 256 = pdu_format
        /\ (f.id \div 256) % 256 = IF pdu_format >= 240 THEN pgn % 256 ELSE dst

\* sender_task calls with dst = 0xFF
C20_IdEncoding ==
    (pc = "ret" /\ ret /\ msg.len <= 8)
        => /\ Len(wire) = 1
           /\ C20_Encoded(wire[1], msg.pgn, 255)

(***************************************************************************)
(* C21: completion.  A record of a reassembled message is printed exactly  *)
(* once, in the step in which an accepted TP.DT brings packets_received to *)
(* total_packets, with the session's pgn, source and total_size; in that   *)
(* step the session leaves the table and its key the owners (busy false    *)
(* when no owner remains).  No other step prints such a record: not an     *)
(* earlier TP.DT, not a sequence error, an overflow or a stale eviction.   *)
(***************************************************************************)
IsTpDt(f) == f.eff /\ DecodedPgn(f.id) = PGN_TP_DT
IsTpCm(f) == f.eff /\ DecodedPgn(f.id) = PGN_TP_CM

\* the TP.DT f is accepted by the session of its key
Accepted(f) ==
    LET id == FrameKey(f)
    IN  /\ IsTpDt(f)
        /\ id \in DOMAIN multi_frame_messages
        /\ FrameSeq(f) \in 1..15
        /\ FrameSeq(f) = ExpectedSeq(multi_frame_messages[id].packets_received)
        /\ multi_frame_messages[id].packets_received * 7
               < multi_frame_messages[id].total_size

\* the accepted TP.DT f is the last one of its session
Completes(f) ==
    /\ Accepted(f)
    /\ multi_frame_messages[FrameKey(f)].packets_received + 1
           = multi_frame_messages[FrameKey(f)].total_packets

MultiRecords(out) == {i \in 1..Len(out) : ~out[i].sf}

C21_Completion ==
    /\ cleanup_stale_sessions(Ctl, now).out = <<>>
    /\ \A f \in RxFrames :
           LET id == FrameKey(f)
               c == decode_j1939_message(Ctl, f, now)
           IN  IF Completes(f)
               THEN /\ Len(c.out) = 1
                    /\ ~c.out[1].sf
                    /\ c.out[1].pgn = multi_frame_messages[id].pgn
                    /\ c.out[1].sender = multi_frame_messages[id].source_addr
                    /\ c.out[1].size = multi_frame_messages[id].total_size
                    /\ id \notin DOMAIN c.mfm
                    /\ id \notin c.active
                    /\ (c.active = {} => ~c.busy)
               ELSE MultiRecords(c.out) = {}

\* the record of the 9-byte message of node 0x10 has just been printed and
\* the bus is free again
C21_Witness ==
    /\ Len(sink) = 1
    /\ ~sink[1].sf
    /\ sink[1].size = 9
    /\ sink[1].sender = 16
    /\ Len(sink[1].data) = 18
    /\ SessionId(2, 16) \notin DOMAIN multi_frame_messages
    /\ ~bus_busy

(***************************************************************************)
(* C22: close releases the bus.  Every removal of a session from the table *)
(* (completion, sequence mismatch, overflow, stale sweep, stale reap)      *)
(* takes its key out of active_bam_sessions, so in every reachable state   *)
(* every key that owns the bus has a session in the table.                 *)
(***************************************************************************)
C22_CloseReleases ==
    \A id \in active_bam_sessions : id \in DOMAIN multi_frame_messages

(***************************************************************************)
(* C23: RTS announce.  A TP.CM with control low nibble 1, a working        *)
(* session tag and no live session for its key opens a session with        *)
(* packets_received = 0 and the announced total_size, total_packets (the   *)
(* derived count for 0 and 0xFF) and pgn.  It does not acquire the bus:    *)
(* bus_busy is not set, the key is not added to active_bam_sessions and    *)
(* bus_busy_timeout keeps its value.                                       *)
(***************************************************************************)
FramePgn(f) == Byte(f, 5) + (256 * Byte(f, 6)) + (65536 * Byte(f, 7))

\* the announce f would pass is_session_valid
Admissible(f) ==
    /\ IsTpCm(f)
    /\ is_valid_session(Byte(f, 0) \div 16)
    /\ ~Live(FrameKey(f))

C23_RtsAnnounce ==
    \A f \in CmFrames :
        LET id == FrameKey(f)
            c == decode_j1939_message(Ctl, f, now)
        IN  (Admissible(f) /\ FrameCode(f) = 1)
            => /\ id \in DOMAIN c.mfm
               /\ c.mfm[id].packets_received = 0
               /\ c.mfm[id].data = <<>>
               /\ c.mfm[id].total_size = FrameSize(f)
               /\ c.mfm[id].total_packets
                      = IF Byte(f, 3) \in {0, 255}
                        THEN (FrameSize(f) + 6) \div 7 ELSE Byte(f, 3)
               /\ c.mfm[id].pgn = FramePgn(f)
               /\ c.timeout = bus_busy_timeout
               /\ (c.busy => bus_busy)
               /\ c.active \subseteq active_bam_sessions
               /\ (id \in c.active => id \in active_bam_sessions)
               /\ StaleIds(Ctl, now) = {} => SameBus(c)
               /\ c.out = <<>>

\* node 0x10 has opened a session by RTS with packet count 2 while the bus
\* is free and nobody owns it
C23_Witness ==
    /\ SessionId(2, 16) \in DOMAIN multi_frame_messages
    /\ multi_frame_messages[SessionId(2, 16)].announce = 1
    /\ multi_frame_messages[SessionId(2, 16)].total_size = 9
    /\ multi_frame_messages[SessionId(2, 16)].packets_received = 0
    /\ active_bam_sessions = {}
    /\ ~bus_busy
    /\ bus_busy_timeout = 0

(***************************************************************************)
(* C24: zero-size announce.  A TP.CM announce (control low nibble 0 or 1)  *)
(* whose total_size field is 0 creates no session and leaves the bus state *)
(* unchanged; the session table never holds a session with total_size 0.   *)
(***************************************************************************)
C24_ZeroSize ==
    /\ \A id \in DOMAIN multi_frame_messages :
           multi_frame_messages[id].total_size # 0
    /\ \A f \in CmFrames :
           LET c == decode_j1939_message(Ctl, f, now)
           IN  (FrameCode(f) \in {0, 1} /\ FrameSize(f) = 0)
               => (FrameKey(f) \notin DOMAIN c.mfm /\ SameBus(c))

(***************************************************************************)
(* C25: session tag rotation.  The send_multi_frame_message calls that     *)
(* get past the bus-wait loop take the tags 2, 3, 6, 7, 10, 11, 2, ... in  *)
(* turn, one position per call whether the call succeeds or not; the       *)
(* announce and every data frame of a call carry its tag in the high       *)
(* nibble of byte 0, the announce with low nibble 0, and the receiver      *)
(* reads the same tag from the announce.                                   *)
(***************************************************************************)
C25_Order == <<2, 3, 6, 7, 10, 11>>

C25_Step ==
    IF pc # "bam" /\ pc' = "bam"
    THEN /\ this_message_session' = C25_Order[session_index + 1]
         /\ session_index' = (session_index + 1) % 6
    ELSE session_index' = session_index

C25_Tags ==
    (IsMulti /\ this_message_session # 0)
        => /\ this_message_session \in {2, 3, 6, 7, 10, 11}
           /\ this_message_session = C25_Order[((session_index + 5) % 6) + 1]
           /\ \A i \in 1..Len(wire) :
                  /\ Byte(wire[i], 0) \div 16 = this_message_session
                  /\ IF i = 1
                     THEN IsTpCm(wire[i]) /\ Byte(wire[i], 0) % 16 = 0
                     ELSE IsTpDt(wire[i])
           /\ (rx_pos = 0 /\ wire # <<>>)
                  => LET c == decode_j1939_message(Ctl, wire[1], now)
                         id == SessionId(this_message_session,
                                         DEFAULT_SOURCE_ADDRESS)
                     IN  /\ id \in DOMAIN c.mfm
                         /\ c.mfm[id].session_number = this_message_session

C25_TagRotation == [][C25_Step]_vars /\ []C25_Tags

\* the sixth call since boot runs with tag 11 and has failed at a data
\* frame; the next call takes tag 2 again
C25_Witness ==
    /\ pc = "ret"
    /\ ~ret
    /\ this_message_session = 11
    /\ session_index = 0
    /\ Len(wire) >= 2

(***************************************************************************)
(* C26: burst order and framing.  send_multi_frame_message(pgn, data,      *)
(* size) hands over first the announce (size in bytes 1-2, low byte first, *)
(* the packet count or 0xFF above 255 in byte 3, 0xFF in byte 4, pgn in    *)
(* bytes 5-7, low byte first), then the data frames seq = 1, 2, ... in     *)
(* increasing order, frame seq with sequence nibble ((seq - 1) mod 15) + 1 *)
(* and the payload bytes from 7 (seq - 1) up to min(7 seq, size), padded   *)
(* with 0xFF; a successful call has handed over 1 + ceil(size / 7) frames. *)
(***************************************************************************)
C26_Packets(size) == (size + 6) \div 7

C26_Announce(m, tag) ==
    <<tag * 16,
      m.len % 256,
      m.len \div 256,
      IF C26_Packets(m.len) > 255 THEN 255 ELSE C26_Packets(m.len),
      255,
      m.pgn % 256,
      (m.pgn \div 256) % 256,
      m.pgn \div 65536>>

C26_Data(m, tag, s) ==
    <<(tag * 16) + ((s - 1) % 15) + 1>>
    \o [j \in 1..7 |-> IF (7 * (s - 1)) + j <= m.len
                       THEN m.data[(7 * (s - 1)) + j] ELSE 255]

C26_BurstOrder ==
    IsMulti
        => /\ Len(wire) <= 1 + C26_Packets(msg.len)
           /\ \A i \in 1..Len(wire) :
                  /\ wire[i].can_dlc = 8
                  /\ wire[i].data
                         = IF i = 1
                           THEN C26_Announce(msg, this_message_session)
                           ELSE C26_Data(msg, this_message_session, i - 1)
                  /\ IF i = 1 THEN IsTpCm(wire[i]) ELSE IsTpDt(wire[i])
           /\ (pc = "ret" /\ ret) => Len(wire) = 1 + C26_Packets(msg.len)

\* 120 bytes are out: 19 frames, frame 16 carries sequence nibble 1 again,
\* frame 18 the last payload byte and six bytes of padding
C26_Witness ==
    /\ pc = "ret"
    /\ ret
    /\ msg.len = 120
    /\ Len(wire) = 19
    /\ Byte(wire[16], 0) % 16 = 15
    /\ Byte(wire[17], 0) % 16 = 1
    /\ Byte(wire[19], 0) % 16 = 3
    /\ Byte(wire[19], 1) = msg.data[120]
    /\ Byte(wire[19], 2) = 255

(***************************************************************************)
(* C27: activity timestamp.  Every TP.CM and every TP.DT received for the  *)
(* key of a live session sets the session's last_activity_time to the time *)
(* of reception: a session that is still in the table after such a frame   *)
(* carries the current time.                                               *)
(***************************************************************************)
C27_ActivityTimestamp ==
    \A f \in CmFrames \cup DtFrames :
        LET id == FrameKey(f)
            c == decode_j1939_message(Ctl, f, now)
        IN  (Live(id) /\ id \in DOMAIN c.mfm)
                => c.mfm[id].last_activity_time = now

(***************************************************************************)
(* C28: dispatch.  A frame without the extended marker and an extended     *)
(* frame with PGN 0xEA00 print nothing; any other extended frame that is   *)
(* neither TP.CM nor TP.DT prints exactly one single-frame record with its *)
(* first can_dlc data bytes.  None of them changes the session table or    *)
(* the bus state.                                                          *)
(***************************************************************************)
C28_Dispatch ==
    \A f \in RxFrames :
        LET c == decode_j1939_message(Ctl, f, now)
        IN  IF ~f.eff \/ DecodedPgn(f.id) = PGN_REQUEST
            THEN c.out = <<>> /\ c.mfm = multi_frame_messages /\ SameBus(c)
            ELSE (~IsTpCm(f) /\ ~IsTpDt(f))
                 => /\ Len(c.out) = 1
                    /\ c.out[1].sf
                    /\ Len(c.out[1].data) = 2 * f.can_dlc
                    /\ c.out[1].data = Hex([i \in 1..f.can_dlc |-> f.data[i]])
                    /\ c.mfm = multi_frame_messages
                    /\ SameBus(c)

\* the frame 0x18EF2010 "ABC" has been printed while a session is open and
\* the bus is busy
C28_Witness ==
    /\ Len(sink) = 1
    /\ sink[1].sf
    /\ sink[1].data = <<"4", "1", "4", "2", "4", "3">>
    /\ sink[1].pgn = 61184
    /\ DOMAIN multi_frame_messages # {}
    /\ bus_busy

(***************************************************************************)
(* The controller with bus_state_mutex spelled out.  A handler of the      *)
(* receiver does its work on multi_frame_messages, which no other task     *)
(* touches, and runs its bus-state critical sections one after the other,  *)
(* each under xSemaphoreTake(bus_state_mutex, 100 ms): a release of a key  *)
(* after an erase, the acquisition of a BAM announce.  The sender runs the *)
(* section of is_bus_available().  A take that times out skips the         *)
(* section.                                                                *)
(***************************************************************************)
\* xSemaphoreTake(bus_state_mutex, ...) == pdTRUE
TakeGranted_Always(holder) == TRUE
TakeGranted(holder) == holder = "free"

Release(id) == [kind |-> "release", id |-> id, packets |-> 0]
Acquire(id, n) == [kind |-> "acquire", id |-> id, packets |-> n]

Releases(ids) == [i \in 1..Len(ids) |-> Release(ids[i])]

\* the critical sections of cleanup_stale_sessions, in the order of the
\* removal loop
SweepSections(mfm, t) ==
    Releases(Ascending({id \in DOMAIN mfm :
                            TimedOut(t, mfm[id].last_activity_time)}))

\* the critical sections decode_j1939_message runs for frame, in order
Sections(mfm, frame, t) ==
    LET id == FrameKey(frame)
    IN  IF IsTpCm(frame)
        THEN IF ~is_valid_session(Byte(frame, 0) \div 16)
             THEN <<>>
             ELSE IF id \in DOMAIN mfm
                     /\ ~TimedOut(t, mfm[id].last_activity_time)
             THEN <<>>
             ELSE (IF id \in DOMAIN mfm THEN <<Release(id)>> ELSE <<>>)
                  \o SweepSections(Erase(mfm, id), t)
                  \o (IF FrameCode(frame) = 0
                      THEN IF FrameSize(frame) = 0
                           THEN <<>>
                           ELSE <<Acquire(id, AnnouncedPackets(frame))>>
                      ELSE IF Byte(frame, 0) = 255
                      THEN <<Release(id)>>
                      ELSE <<>>)
        ELSE IF IsTpDt(frame)
        THEN IF FrameSeq(frame) = 0 \/ id \notin DOMAIN mfm
             THEN <<>>
             ELSE IF FrameSeq(frame) # ExpectedSeq(mfm[id].packets_received)
             THEN <<Release(id)>>
             ELSE IF mfm[id].packets_received * 7 >= mfm[id].total_size
             THEN <<>>
             ELSE IF mfm[id].packets_received + 1 >= mfm[id].total_packets
             THEN <<Release(id)>>
             ELSE <<>>
        ELSE <<>>

\* the body of one critical section
RunSection(c, s, t) ==
    IF s.kind = "acquire"
    THEN AcquireBus(c, s.id, s.packets, t)
    ELSE ReleaseBus(c, s.id)

RECURSIVE RunSections(_, _, _)
RunSections(c, todo, t) ==
    IF todo = <<>> THEN c
    ELSE RunSections(RunSection(c, Head(todo), t), Tail(todo), t)

MxFrames ==
    {CmFrame(16, 2, 0, 9, 2, PGN_EXTRA),
     CmFrame(17, 3, 0, 9, 2, PGN_GROUP_MESSAGE),
     DtFrame(16, 2, 1, 65),
     DtFrame(16, 2, 2, 65),
     DtFrame(16, 2, 3, 65)}

\* receiver_task: decode_j1939_message up to its first critical section
MxDecode(f) ==
    /\ rx_todo = <<>>
    /\ ~rx_in
    /\ LET c == decode_j1939_message(Ctl, f, now)
       IN  /\ multi_frame_messages' = c.mfm
           /\ sink' = c.out
    /\ rx_todo' = Sections(multi_frame_messages, f, now)
    /\ UNCHANGED <<now, active_bam_sessions, bus_busy, bus_busy_timeout,
                   txvars, rtvars, qvars, bus_state_mutex, rx_in, tx_in>>

\* receiver_task: cleanup_stale_sessions up to its first critical section
MxSweep ==
    /\ rx_todo = <<>>
    /\ ~rx_in
    /\ multi_frame_messages' = cleanup_stale_sessions(Ctl, now).mfm
    /\ sink' = <<>>
    /\ rx_todo' = SweepSections(multi_frame_messages, now)
    /\ UNCHANGED <<now, active_bam_sessions, bus_busy, bus_busy_timeout,
                   txvars, rtvars, qvars, bus_state_mutex, rx_in, tx_in>>

\* receiver: xSemaphoreTake(bus_state_mutex) granted
MxRxTake ==
    /\ rx_todo # <<>>
    /\ ~rx_in
    /\ TakeGranted(bus_state_mutex)
    /\ bus_state_mutex' = "rx"
    /\ rx_in' = TRUE
    /\ UNCHANGED <<now, ctlvars, sink, txvars, rtvars, qvars, rx_todo, tx_in>>

\* receiver: the take ran out while the sender held the mutex; the section
\* is skipped
MxRxTakeTimeout ==
    /\ rx_todo # <<>>
    /\ ~rx_in
    /\ bus_state_mutex = "tx"
    /\ rx_todo' = Tail(rx_todo)
    /\ UNCHANGED <<now, ctlvars, sink, txvars, rtvars, qvars, bus_state_mutex,
                   rx_in, tx_in>>

\* receiver: the body of the section, then xSemaphoreGive(bus_state_mutex)
MxRxSection ==
    /\ rx_in
    /\ LET c == RunSection(Ctl, Head(rx_todo), now)
       IN  /\ active_bam_sessions' = c.active
           /\ bus_busy' = c.busy
           /\ bus_busy_timeout' = c.timeout
    /\ rx_todo' = Tail(rx_todo)
    /\ rx_in' = FALSE
    /\ bus_state_mutex' = "free"
    /\ UNCHANGED <<now, multi_frame_messages, sink, txvars, rtvars, qvars,
                   tx_in>>

\* sender: xSemaphoreTake(bus_state_mutex) of is_bus_available granted
MxTxTake ==
    /\ ~tx_in
    /\ TakeGranted(bus_state_mutex)
    /\ bus_state_mutex' = "tx"
    /\ tx_in' = TRUE
    /\ UNCHANGED <<now, ctlvars, sink, txvars, rtvars, qvars, rx_todo, rx_in>>

\* sender: the take ran out while the receiver held the mutex; the call
\* returns false
MxTxTakeTimeout ==
    /\ ~tx_in
    /\ bus_state_mutex = "rx"
    /\ Commit(is_bus_available_mutex(Ctl, now, FALSE).c)
    /\ UNCHANGED <<now, txvars, rtvars, qvars, mxvars>>

\* sender: the body of is_bus_available, then xSemaphoreGive
MxTxSection ==
    /\ tx_in
    /\ Commit(is_bus_available_mutex(Ctl, now, TRUE).c)
    /\ tx_in' = FALSE
    /\ bus_state_mutex' = "free"
    /\ UNCHANGED <<now, txvars, rtvars, qvars, rx_todo, rx_in>>

NextMx ==
    \/ Tick
    \/ \E f \in MxFrames : MxDecode(f)
    \/ MxSweep
    \/ MxRxTake
    \/ MxRxTakeTimeout
    \/ MxRxSection
    \/ MxTxTake
    \/ MxTxTakeTimeout
    \/ MxTxSection

SpecMx == Init /\ [][NextMx]_vars

(***************************************************************************)
(* C29: bus-state mutual exclusion.  bus_busy, bus_busy_timeout and        *)
(* active_bam_sessions change only in a step of a task that holds          *)
(* bus_state_mutex; the receiver (decode, sweep) and the sender            *)
(* (is_bus_available) are never inside a critical section at the same      *)
(* time; a take that timed out is followed by no access to the bus state.  *)
(***************************************************************************)
C29_Exclusion ==
    /\ ~(rx_in /\ tx_in)
    /\ rx_in => (bus_state_mutex = "rx" /\ rx_todo # <<>>)
    /\ tx_in => bus_state_mutex = "tx"
    /\ bus_state_mutex = "free" => (~rx_in /\ ~tx_in)

C29_BusChanged ==
    \/ bus_busy' # bus_busy
    \/ bus_busy_timeout' # bus_busy_timeout
    \/ active_bam_sessions' # active_bam_sessions

C29_Step ==
    /\ C29_BusChanged
           => \/ rx_in /\ bus_state_mutex = "rx" /\ ~rx_in'
              \/ tx_in /\ bus_state_mutex = "tx" /\ ~tx_in'
    \* a take that timed out: the section is dropped, nothing is touched
    /\ (~rx_in /\ ~rx_in' /\ rx_todo # <<>> /\ rx_todo' = Tail(rx_todo))
           => ~C29_BusChanged
    /\ (bus_state_mutex' = bus_state_mutex) => ~C29_BusChanged

\* with every take granted the sections of a handler add up to the bus
\* state the handler leaves as a whole
C29_SectionsAgree ==
    /\ \A f \in MxFrames :
           LET c == decode_j1939_message(Ctl, f, now)
               b == RunSections(Ctl, Sections(multi_frame_messages, f, now),
                                now)
           IN  SameBus(Ctl) => /\ b.active = c.active
                               /\ b.busy = c.busy
                               /\ b.timeout = c.timeout
    /\ LET c == cleanup_stale_sessions(Ctl, now)
           b == RunSections(Ctl, SweepSections(multi_frame_messages, now), now)
       IN  b.active = c.active /\ b.busy = c.busy

C29_MutualExclusion ==
    /\ []C29_Exclusion
    /\ []C29_SectionsAgree
    /\ [][C29_Step]_vars

\* the sender is inside is_bus_available() with the bus busy while the
\* receiver has a release to run and does not hold the mutex
C29_Witness ==
    /\ tx_in
    /\ bus_state_mutex = "tx"
    /\ ~rx_in
    /\ rx_todo # <<>>
    /\ Head(rx_todo).kind = "release"
    /\ bus_busy


(***************************************************************************)
(* C30: committed prefix.  Every session of the table has                  *)
(* packets_received <= total_packets and                                   *)
(* len(data) = min(7 * packets_received, total_size).  An accepted TP.DT   *)
(* of a session with n packets received appends the bytes data[1] ..       *)
(* data[k] of the frame, k = min(7, total_size - 7 n), at offsets          *)
(* [7 n, 7 n + k) and leaves the bytes of the earlier frames as they were: *)
(* the buffer after the frame (the one kept in the table, or the one       *)
(* printed when the frame completes the message) is the buffer before it   *)
(* followed by those k bytes.                                              *)
(***************************************************************************)
C30_Shape(m) ==
    /\ m.packets_received <= m.total_packets
    /\ Len(m.data) = Min(7 * m.packets_received, m.total_size)

C30_Written(m, f) ==
    SubSeq(f.data, 2, 1 + Min(7, m.total_size - (7 * m.packets_received)))

C30_CommittedPrefix ==
    /\ \A id \in DOMAIN multi_frame_messages :
           C30_Shape(multi_frame_messages[id])
    /\ \A f \in RxFrames :
           Accepted(f) =>
               LET id == FrameKey(f)
                   m == multi_frame_messages[id]
                   c == decode_j1939_message(Ctl, f, now)
                   after == m.data \o C30_Written(m, f)
               IN  /\ Len(m.data) = 7 * m.packets_received
                   /\ IF id \in DOMAIN c.mfm
                      THEN /\ c.mfm[id].data = after
                           /\ c.mfm[id].packets_received
                                  = m.packets_received + 1
                           /\ C30_Shape(c.mfm[id])
                      ELSE /\ Len(c.out) = 1
                           /\ c.out[1].data = Hex(after)
                   /\ \A other \in DOMAIN c.mfm \ {id} :
                          /\ other \in DOMAIN multi_frame_messages
                          /\ c.mfm[other].data
                                 = multi_frame_messages[other].data

\* the session of node 0x10 announced as 9 bytes in 3 packets holds all 9
\* bytes after its second TP.DT: 7 of the first frame, 2 of the second
C30_Witness ==
    LET id == SessionId(2, 16)
    IN  /\ id \in DOMAIN multi_frame_messages
        /\ multi_frame_messages[id].total_size = 9
        /\ multi_frame_messages[id].total_packets = 3
        /\ multi_frame_messages[id].packets_received = 2
        /\ multi_frame_messages[id].data
               = SubSeq(DtFrame(16, 2, 1, 65).data, 2, 8)
                 \o SubSeq(DtFrame(16, 2, 2, 65).data, 2, 3)


(***************************************************************************)
(* C31: emitted length matches announced size.  Every record of a          *)
(* reassembled message carries as many data bytes (two hex digits each) as *)
(* the size it reports, whatever packet-count byte the announce carried.   *)
(***************************************************************************)
C31_EmittedLength ==
    \A i \in 1..Len(sink) :
        ~sink[i].sf => Len(sink[i].data) = 2 * sink[i].size


(***************************************************************************)
(* C32: session isolation.  Decoding a TP.CM or TP.DT of key (n, s) leaves *)
(* the whole record of every session of another key that is in the table   *)
(* and not stale as it was, and leaves that key in active_bam_sessions if  *)
(* it was there; the only keys a decode takes out of active_bam_sessions   *)
(* are its own and those of stale sessions it sweeps.  Hence the record    *)
(* printed for a session whose frames arrived interleaved with those of    *)
(* another node holds the bytes of its own frames only, in order.          *)
(***************************************************************************)
\* the payload bytes of the TP.DT frames 1 .. 3 of one node, in order
C32_Own(src, tag, fill) ==
    SubSeq(DtFrame(src, tag, 1, fill).data, 2, 8)
        \o SubSeq(DtFrame(src, tag, 2, fill).data, 2, 8)
        \o SubSeq(DtFrame(src, tag, 3, fill).data, 2, 8)

C32_OwnPayload(r) ==
    LET own == IF r.sender = 16 THEN C32_Own(16, 2, 65)
               ELSE C32_Own(17, 3, OtherFill)
    IN  /\ r.sender \in {16, 17}
        /\ Len(r.data) % 2 = 0
        /\ Len(r.data) <= 2 * Len(own)
        /\ r.data = Hex(SubSeq(own, 1, Len(r.data) \div 2))

C32_Isolation ==
    /\ \A f \in RxFrames :
           (IsTpCm(f) \/ IsTpDt(f)) =>
               LET key == FrameKey(f)
                   c == decode_j1939_message(Ctl, f, now)
               IN  /\ \A id \in DOMAIN multi_frame_messages \ {key} :
                          ~TimedOut(now,
                                    multi_frame_messages[id].last_activity_time)
                              => /\ id \in DOMAIN c.mfm
                                 /\ c.mfm[id] = multi_frame_messages[id]
                                 /\ id \in active_bam_sessions
                                        => id \in c.active
                   /\ \A id \in active_bam_sessions \ c.active :
                          \/ id = key
                          \/ /\ id \in DOMAIN multi_frame_messages
                             /\ TimedOut(now,
                                    multi_frame_messages[id].last_activity_time)
    /\ \A i \in MultiRecords(sink) : C32_OwnPayload(sink[i])

\* the claim with its owners clause as worded: no decode takes a key other
\* than its own out of active_bam_sessions
C32_AsWorded ==
    /\ \A f \in RxFrames :
           (IsTpCm(f) \/ IsTpDt(f)) =>
               LET key == FrameKey(f)
                   c == decode_j1939_message(Ctl, f, now)
               IN  /\ \A id \in DOMAIN multi_frame_messages \ {key} :
                          ~TimedOut(now,
                                    multi_frame_messages[id].last_activity_time)
                              => /\ id \in DOMAIN c.mfm
                                 /\ c.mfm[id] = multi_frame_messages[id]
                   /\ \A id \in active_bam_sessions \ {key} : id \in c.active
    /\ \A i \in MultiRecords(sink) : C32_OwnPayload(sink[i])

\* the 9-byte message of node 0x11 has just been printed, complete, while the
\* session of node 0x10 is in the middle of its own message and owns the bus
C32_Witness ==
    /\ Len(sink) = 1
    /\ ~sink[1].sf
    /\ sink[1].sender = 17
    /\ Len(sink[1].data) = 18
    /\ SessionId(2, 16) \in DOMAIN multi_frame_messages
    /\ multi_frame_messages[SessionId(2, 16)].packets_received = 1
    /\ SessionId(2, 16) \in active_bam_sessions
    /\ SessionId(3, 17) \notin active_bam_sessions


(***************************************************************************)
(* C33: no busy bus at transmit time.  In the system of receiver_task and  *)
(* sender_task, whenever a send call is past its bus-wait loop and about   *)
(* to hand a frame to the transceiver, sender_task holds spi_mutex and     *)
(* bus_busy is false; every step that puts a frame on the wire starts and  *)
(* ends with bus_busy false, and no step between the gate and the return   *)
(* of the call sets bus_busy.                                              *)
(***************************************************************************)
C33_PastGate == pc \in {"single", "bam", "dt"}

C33_Free ==
    C33_PastGate => (~bus_busy /\ spi_mutex = "tx")

C33_Step ==
    /\ wire' # wire /\ wire' # <<>> => (~bus_busy /\ ~bus_busy')
    /\ C33_PastGate => ~bus_busy'
    /\ (pc \in {"gate", "delay"} /\ pc' \in {"single", "bam"}) => ~bus_busy'

C33_NoBusyAtTransmit == []C33_Free /\ [][C33_Step]_vars

\* the second data frame of a burst is about to go out; the call waited in
\* its bus-wait loop for the watchdog of a remote announce that was decoded
\* between sender_task's query and its take of spi_mutex, and the remote
\* session is still in the table
C33_Witness ==
    /\ pc = "dt"
    /\ seq = 2
    /\ Len(wire) = 2
    /\ retries >= 1
    /\ ~bus_busy
    /\ DOMAIN multi_frame_messages # {}


SpecFair == Spec /\ WF_vars(SendStep)

(***************************************************************************)
(* C35: termination of sends.  A call of send_single_frame_message makes   *)
(* at most 6 is_bus_available queries and at most one sendMessage; a call  *)
(* of send_multi_frame_message(pgn, data, size) makes at most 11 queries   *)
(* and at most 3 sendMessage attempts for each of at most                  *)
(* 1 + ceil(size / 7) frames; every step of a call lowers a bounded        *)
(* measure of the work left, and every call returns, whatever the          *)
(* receiver does meanwhile.                                                *)
(***************************************************************************)
C35_InCall == pc \in {"gate", "delay", "single", "bam", "dt", "ret"}

\* ceil(n / 7)
C35_Ceil7(n) == CHOOSE k \in 0..n : 7 * k >= n /\ 7 * (k - 1) < n

\* is_bus_available queries the running call has made so far, at most
C35_Queries ==
    IF pc = "gate" THEN 0
    ELSE IF pc = "delay" THEN retries + 1
    ELSE retries + 2

\* sendMessage attempts still possible after the bus-wait loop
C35_Work ==
    IF IsMulti THEN 3 * (1 + C35_Ceil7(msg.len)) ELSE 1

\* steps the running call can still take, at most
C35_Rank ==
    IF pc = "gate" THEN 12 + C35_Work
    ELSE IF pc = "delay" THEN (11 - retries) + C35_Work
    ELSE IF pc = "single" THEN 1
    ELSE IF pc = "bam" THEN (3 * C35_Ceil7(msg.len)) + (3 - retry)
    ELSE IF pc = "dt" THEN (3 * (C35_Ceil7(msg.len) - seq)) + (3 - retry)
    ELSE 0

C35_Bounds ==
    C35_InCall =>
        /\ C35_Queries <= (IF IsMulti THEN 11 ELSE 6)
        /\ C35_Rank >= 0
        /\ pc \in {"bam", "dt"} => retry \in 0..2
        /\ pc = "dt" => seq \in 1..C35_Ceil7(msg.len)
        /\ Len(wire) <= (IF IsMulti THEN 1 + C35_Ceil7(msg.len) ELSE 1)

\* a step of the running call: a query, a sendMessage attempt
C35_CallStep ==
    /\ pc \in {"gate", "delay", "single", "bam", "dt"}
    /\ <<pc, retries, retry, seq, wire>>' # <<pc, retries, retry, seq, wire>>

C35_Step ==
    /\ (C35_CallStep /\ pc \in {"gate", "delay"})
           => C35_Queries' >= C35_Queries + 1
    /\ C35_CallStep
           => /\ C35_InCall'
              /\ msg' = msg
              /\ C35_Rank' < C35_Rank
    \* at most one sendMessage per step, and a frame is retried only after
    \* a failed attempt
    /\ (C35_CallStep /\ pc \in {"single", "bam", "dt"})
           => /\ Len(wire') <= Len(wire) + 1
              /\ (pc' = pc /\ seq' = seq) =>
                     (wire' = wire /\ retry' = retry + 1)
    /\ (C35_CallStep /\ pc = "single") => pc' = "ret"

C35_Returns == (pc = "gate") ~> (pc = "ret")

C35_Termination == []C35_Bounds /\ [][C35_Step]_vars /\ C35_Returns

\* a send_multi_frame_message call has just given up after its eleventh
\* query, with nothing sent, while the receiver's table holds the session
\* whose announce made the bus busy
C35_Witness ==
    /\ pc = "ret"
    /\ IsMulti
    /\ ~ret
    /\ retries = 9
    /\ wire = <<>>
    /\ bus_busy
    /\ DOMAIN multi_frame_messages # {}

=========================================================================
